---- MODULE Spec2Model ----
(***************************************************************************)
(* Office bot control plane: the HTTP control API and the WebSocket        *)
(* server of apps/claw-office/server/ws-server.js, the browser client of   *)
(* apps/claw-office/public/ws-client.js and the bot logic of               *)
(* apps/claw-office/viewer.js.                                             *)
(*                                                                         *)
(* Numbers.  JavaScript numbers that carry a position are modelled in      *)
(* fixed point: the integer n stands for n / Scale tiles.  Tile indices    *)
(* (after Math.floor) are plain integers.                                  *)
(***************************************************************************)
EXTENDS Integers, Sequences, FiniteSets, TLC

\* ------------------------------------------------------------------------
\* Bounds of the model
\* ------------------------------------------------------------------------
\* Width and height of the grids the pathfinder is exercised on.
GridW == 3
GridH == 3
\* Largest number of blocked tiles in such a grid.
MaxBlocked == 2
\* Largest number of undelivered messages on one WebSocket connection.
MaxNet == 1
\* Last instant of the clock (Date.now()).
MaxTime == 1

\* ------------------------------------------------------------------------
\* Numbers
\* ------------------------------------------------------------------------
\* Fixed-point denominator: positions are kept in hundredths of a tile.
Scale == 100

ToNum(k) == k * Scale

\* Math.floor on a fixed-point number, giving a tile index.
Floor(n) == n \div Scale

Abs(n) == IF n < 0 THEN 0 - n ELSE n

\* JavaScript Infinity, and the comparison a < b of numbers that may be it.
Infinity == 0 - 1
Less(a, b) == a # Infinity /\ (b = Infinity \/ a < b)

\* The JavaScript value undefined where a number is expected.
Undefined == 0 - 999

VARIABLES
  mapCollisions,   \* null (loaded = FALSE) or {width, height, data}
  pf,              \* the last findPath call: its arguments and its result
  localBots,       \* the local bots, by id
  remoteBots,      \* the Map of live remote bots, by id
  botsFile,        \* the content of bots.json: snapshots by id
  wsClients,       \* the Set of authenticated connections
  conns,           \* per connection: readyState and the `authenticated` flag
  net,             \* per connection: messages sent by the server, not yet received
  res,             \* the last HTTP response
  now,             \* Date.now()
  unboundAt,       \* history: per remote id, position and task status when unbound
  taskSet,         \* history: per bot id, the task status last set through the API
  viewer           \* per connection: the browser page (viewer.js + ws-client.js)

vars == <<mapCollisions, pf, localBots, remoteBots, botsFile, wsClients, conns, net,
          res, now, unboundAt, taskSet, viewer>>

serverVars == <<localBots, remoteBots, botsFile, wsClients, conns, net, res, now, unboundAt, taskSet>>

\* ------------------------------------------------------------------------
\* Map loading and pathfinding (ws-server.js 68-198)
\* ------------------------------------------------------------------------
NoMap == [loaded |-> FALSE, width |-> 0, height |-> 0, data |-> <<>>]

\* loadMapData: the collisions layer of a w x h map whose blocked tiles
\* (non-zero gid) are those of `blocked`, a set of <<x, y>>.
loadMapData(w, h, blocked) ==
  [loaded |-> TRUE, width |-> w, height |-> h,
   data |-> [i \in 1..(w * h) |->
               IF <<(i - 1) % w, (i - 1) \div w>> \in blocked THEN 1 ELSE 0]]

\* data[idx] with the 0-based index of the source.
DataAt(idx) == mapCollisions.data[idx + 1]

isWalkable(x, y) ==
  IF ~mapCollisions.loaded THEN TRUE
  ELSE IF x < 0 \/ x >= mapCollisions.width \/ y < 0 \/ y >= mapCollisions.height
       THEN FALSE
       ELSE DataAt(y * mapCollisions.width + x) = 0

heuristic(x, y, endX, endY) == Abs(x - endX) + Abs(y - endY)

\* Map.get(key) || dflt  for the number-valued maps gScore and fScore.
GetOr(m, key, dflt) ==
  IF key \in DOMAIN m /\ m[key] # 0 THEN m[key] ELSE dflt

\* Map.set(key, value)
MapSet(m, key, value) ==
  [k \in (DOMAIN m) \cup {key} |-> IF k = key THEN value ELSE m[k]]

NoNode == <<>>

\* The scan of ws-server.js 139-146 over the open set in insertion order,
\* from position i on; cur is the best key so far (NoNode: none).
RECURSIVE LowestF(_, _, _, _, _)
LowestF(openSet, fScore, i, lowestF, cur) ==
  IF i > Len(openSet) THEN cur
  ELSE LET key == openSet[i]
           f == GetOr(fScore, key, Infinity)
       IN IF Less(f, lowestF)
          THEN LowestF(openSet, fScore, i + 1, f, key)
          ELSE LowestF(openSet, fScore, i + 1, lowestF, cur)

\* Neighbours that also take the four diagonal tiles.
Neighbors_diagonal(c) ==
  << <<c[1], c[2] - 1>>, <<c[1], c[2] + 1>>, <<c[1] - 1, c[2]>>, <<c[1] + 1, c[2]>>,
     <<c[1] - 1, c[2] - 1>>, <<c[1] + 1, c[2] - 1>>,
     <<c[1] - 1, c[2] + 1>>, <<c[1] + 1, c[2] + 1>> >>

\* The neighbours of a tile in the order of ws-server.js 170-175.
Neighbors(c) ==
  << <<c[1], c[2] - 1>>, <<c[1], c[2] + 1>>, <<c[1] - 1, c[2]>>, <<c[1] + 1, c[2]>> >>

InSeq(s, e) == \E i \in 1..Len(s) : s[i] = e

\* One pass of the neighbour loop (ws-server.js 177-194) for neighbour n of
\* the node `current`, on the search state st.
Relax(st, current, n, endX, endY) ==
  IF ~isWalkable(n[1], n[2]) THEN st
  ELSE IF n \in st.closedSet THEN st
  ELSE LET tentativeG == GetOr(st.gScore, current, 0) + 1
           isOpen == InSeq(st.openSet, n)
       IN IF isOpen /\ ~Less(tentativeG, GetOr(st.gScore, n, Infinity))
          THEN st
          ELSE [st EXCEPT
                  !.openSet = IF isOpen THEN @ ELSE Append(@, n),
                  !.cameFrom = MapSet(@, n, current),
                  !.gScore = MapSet(@, n, tentativeG),
                  !.fScore = MapSet(@, n, tentativeG + heuristic(n[1], n[2], endX, endY))]

RECURSIVE RelaxAll(_, _, _, _, _, _)
RelaxAll(st, current, ns, i, endX, endY) ==
  IF i > Len(ns) THEN st
  ELSE RelaxAll(Relax(st, current, ns[i], endX, endY), current, ns, i + 1, endX, endY)

\* Map.delete(key) on the insertion-ordered open set.
RECURSIVE Remove(_, _)
Remove(s, e) ==
  IF s = <<>> THEN <<>>
  ELSE IF Head(s) = e THEN Tail(s) ELSE <<Head(s)>> \o Remove(Tail(s), e)

\* The reconstruction loop of ws-server.js 152-163, entered with `key` and the
\* path built so far; `current` is the node the search stopped on.
RECURSIVE Reconstruct(_, _, _, _, _)
Reconstruct(cameFrom, current, startKey, key, path) ==
  LET has == key \in DOMAIN cameFrom
      node == IF has THEN cameFrom[key] ELSE current
      path1 == <<node>> \o path
  IN IF ~has THEN path1
     ELSE IF node = startKey THEN <<startKey>> \o path1
     ELSE Reconstruct(cameFrom, current, startKey, node, path1)

\* The while loop of ws-server.js 133-195.  The result says whether a path
\* was returned and how the loop was left.
RECURSIVE Search(_, _, _)
Search(st, startKey, endKey) ==
  IF Len(st.openSet) = 0
  THEN [found |-> FALSE, path |-> <<>>, exit |-> "exhausted"]
  ELSE LET currentKey == LowestF(st.openSet, st.fScore, 1, Infinity, NoNode)
       IN IF currentKey = NoNode
          THEN [found |-> FALSE, path |-> <<>>, exit |-> "break"]
          ELSE IF currentKey = endKey
          THEN [found |-> TRUE,
                path |-> Reconstruct(st.cameFrom, currentKey, startKey, currentKey, <<>>),
                exit |-> "goal"]
          ELSE LET st1 == [st EXCEPT !.openSet = Remove(@, currentKey),
                                     !.closedSet = @ \cup {currentKey}]
               IN Search(RelaxAll(st1, currentKey, Neighbors(currentKey), 1,
                                  endKey[1], endKey[2]),
                         startKey, endKey)

\* findPath of ws-server.js 106-198.  The arguments are numbers (fixed
\* point); the path is a sequence of tiles <<x, y>>.
findPath(startX, startY, endX, endY) ==
  LET sx == Floor(startX)
      sy == Floor(startY)
      ex == Floor(endX)
      ey == Floor(endY)
      startKey == <<sx, sy>>
  IN IF ~isWalkable(sx, sy) \/ ~isWalkable(ex, ey)
     THEN [found |-> FALSE, path |-> <<>>, exit |-> "invalid"]
     ELSE Search([openSet |-> <<startKey>>,
                  closedSet |-> {},
                  cameFrom |-> <<>>,
                  gScore |-> MapSet(<<>>, startKey, 0),
                  fScore |-> MapSet(<<>>, startKey, heuristic(sx, sy, ex, ey))],
                 startKey, <<ex, ey>>)

\* ------------------------------------------------------------------------
\* Configuration and bot state (ws-server.js 27-66, 200-220)
\* ------------------------------------------------------------------------
API_KEY == "openclaw-default-key"

SPAWN_POSITION == [x |-> ToNum(13), y |-> ToNum(19)]

AVAILABLE_CHARACTERS == {"pm", "xm", "coder", "alvin"}

LOCATIONS ==
  [desk_pm |-> [x |-> 10, y |-> 4],
   desk_xm |-> [x |-> 10, y |-> 6],
   desk_coder |-> [x |-> 13, y |-> 4],
   desk_alvin |-> [x |-> 6, y |-> 8],
   pantry |-> [x |-> 25, y |-> 5],
   spawn |-> [x |-> 13, y |-> 19]]

Directions == {"up", "down", "left", "right", "stop"}
States == {"working", "coffee", "offline"}
\* The valid task statuses with an extra one.
TaskStatuses_done == {"idle", "working", "done"}

TaskStatuses == {"idle", "working"}

\* null / undefined where an object is expected; "" where a string is.
Null == [null |-> TRUE]
NoPath == <<>>

LocalIds == {"alvin-local"}
RemoteIds == {"pm"}
BotIds == LocalIds \cup RemoteIds

\* The local bot of ws-server.js 201-217 (createdAt, taskStatus, _path and
\* _pathIndex are undefined on it).
LocalBot ==
  [id |-> "alvin-local", type |-> "local", character |-> "alvin",
   name |-> "Alvin (You)", x |-> ToNum(15), y |-> ToNum(20),
   target |-> "desk_alvin", state |-> "working", boundBy |-> "",
   speech |-> Null, manual |-> FALSE, moveDir |-> "", autoMove |-> FALSE,
   path |-> NoPath, pathIndex |-> Undefined,
   createdAt |-> Undefined, taskStatus |-> Null, isNew |-> FALSE]

IdleTask(t) == [status |-> "idle", description |-> "", lastUpdate |-> t]

\* The office map: 31 x 21 tiles (MAP_INFO), of which the tiles of OfficeFloor
\* are free and all others carry a collision tile.
MAP_WIDTH == 31
MAP_HEIGHT == 21
OfficeFloor ==
  {<<x, 19>> : x \in 12..15} \cup {<<x, 20>> : x \in 13..15} \cup {<<13, 18>>}
OfficeBlocked == ((0..(MAP_WIDTH - 1)) \X (0..(MAP_HEIGHT - 1))) \ OfficeFloor
OfficeMap == loadMapData(MAP_WIDTH, MAP_HEIGHT, OfficeBlocked)

\* ------------------------------------------------------------------------
\* Persistence (ws-server.js 224-310)
\* ------------------------------------------------------------------------
\* loadBotsFromFile: the parsed content of bots.json ({} when absent).
loadBotsFromFile == botsFile

\* A snapshot that stamps createdAt with the time of the save.
Snapshot_restamp(botData, t) ==
  [id |-> botData.id,
   character |-> botData.character,
   name |-> IF botData.name # "" THEN botData.name ELSE botData.id,
   createdAt |-> t,
   lastPosition |-> [x |-> botData.x, y |-> botData.y],
   lastSeen |-> t,
   taskStatus |-> IF botData.taskStatus # Null THEN botData.taskStatus ELSE IdleTask(t)]

\* A snapshot that records the spawn position instead of the bot's own.
Snapshot_spawn(botData, t) ==
  [id |-> botData.id,
   character |-> botData.character,
   name |-> IF botData.name # "" THEN botData.name ELSE botData.id,
   createdAt |-> botData.createdAt,
   lastPosition |-> SPAWN_POSITION,
   lastSeen |-> t,
   taskStatus |-> IF botData.taskStatus # Null THEN botData.taskStatus ELSE IdleTask(t)]

\* The record saveBotToFile writes for botData at time t.  JSON.stringify
\* keeps every number and string of it as it is and drops the keys whose
\* value is undefined, which JSON.parse then reads as undefined again.
Snapshot(botData, t) ==
  [id |-> botData.id,
   character |-> botData.character,
   name |-> IF botData.name # "" THEN botData.name ELSE botData.id,
   createdAt |-> botData.createdAt,
   lastPosition |-> [x |-> botData.x, y |-> botData.y],
   lastSeen |-> t,
   taskStatus |-> IF botData.taskStatus # Null THEN botData.taskStatus ELSE IdleTask(t)]

\* saveBotToFile(botId, botData): the new content of bots.json.
saveBotToFile(botId, botData) ==
  LET allBots == loadBotsFromFile
  IN [k \in (DOMAIN allBots) \cup {botId} |->
        IF k = botId THEN Snapshot(botData, now) ELSE allBots[k]]

\* createBot that does not look for a snapshot: every bot is new.
createBot_fresh(clawId, customName, character) ==
  [id |-> clawId, type |-> "remote", character |-> character,
   name |-> IF customName # "" THEN customName ELSE clawId,
   x |-> SPAWN_POSITION.x, y |-> SPAWN_POSITION.y,
   target |-> "spawn", state |-> "working", boundBy |-> clawId,
   speech |-> Null, manual |-> TRUE, moveDir |-> "", autoMove |-> FALSE,
   path |-> NoPath, pathIndex |-> Undefined,
   createdAt |-> now, taskStatus |-> IdleTask(now), isNew |-> TRUE]

\* createBot(clawId, customName), with the character assignRandomCharacter
\* draws when the bot is new.  The result is the bot; a new bot is also saved.
createBot(clawId, customName, character) ==
  LET savedBots == loadBotsFromFile
  IN IF clawId \in DOMAIN savedBots
     THEN LET saved == savedBots[clawId]
          IN [id |-> clawId, type |-> "remote", character |-> saved.character,
              name |-> IF saved.name # "" THEN saved.name
                       ELSE IF customName # "" THEN customName ELSE clawId,
              x |-> saved.lastPosition.x, y |-> saved.lastPosition.y,
              target |-> "spawn", state |-> "working", boundBy |-> clawId,
              speech |-> Null, manual |-> TRUE, moveDir |-> "", autoMove |-> FALSE,
              path |-> NoPath, pathIndex |-> Undefined,
              createdAt |-> saved.createdAt,
              taskStatus |-> IF saved.taskStatus # Null THEN saved.taskStatus
                             ELSE IdleTask(now),
              isNew |-> FALSE]
     ELSE [id |-> clawId, type |-> "remote", character |-> character,
           name |-> IF customName # "" THEN customName ELSE clawId,
           x |-> SPAWN_POSITION.x, y |-> SPAWN_POSITION.y,
           target |-> "spawn", state |-> "working", boundBy |-> clawId,
           speech |-> Null, manual |-> TRUE, moveDir |-> "", autoMove |-> FALSE,
           path |-> NoPath, pathIndex |-> Undefined,
           createdAt |-> now, taskStatus |-> IdleTask(now), isNew |-> TRUE]

\* getAllBots that leaves the local bots out.
getAllBots_remote == [id \in DOMAIN remoteBots |-> remoteBots[id]]

\* getAllBots: the local bots and the live remote bots, by id.
getAllBots ==
  [id \in LocalIds \cup DOMAIN remoteBots |->
     IF id \in LocalIds THEN localBots[id] ELSE remoteBots[id]]

\* getBotById that falls back on the snapshot of a bot that is not live.
getBotById_saved(botId) ==
  IF botId \in LocalIds THEN localBots[botId]
  ELSE IF botId \in DOMAIN remoteBots THEN remoteBots[botId]
  ELSE IF botId \in DOMAIN botsFile THEN createBot(botId, "", "pm")
  ELSE Null

\* getBotById that looks among the remote bots only.
getBotById_remote(botId) ==
  IF botId \in DOMAIN remoteBots THEN remoteBots[botId] ELSE Null

\* getBotById: local bots first, then the remote ones; Null when none.
getBotById(botId) ==
  IF botId \in LocalIds THEN localBots[botId]
  ELSE IF botId \in DOMAIN remoteBots THEN remoteBots[botId]
  ELSE Null

\* The registry after an assignment to fields of the bot getBotById returned.
PutBot(bot) ==
  IF bot.id \in LocalIds
  THEN /\ localBots' = [localBots EXCEPT ![bot.id] = bot]
       /\ UNCHANGED remoteBots
  ELSE /\ remoteBots' = [remoteBots EXCEPT ![bot.id] = bot]
       /\ UNCHANGED localBots

\* ------------------------------------------------------------------------
\* WebSocket server (ws-server.js 745-838)
\* ------------------------------------------------------------------------
Conns == {1, 2}

\* A connection slot with no socket: never opened, or closed.
NoConn == [readyState |-> "none", authenticated |-> FALSE]

\* verifyToken: the tokens signed with JWT_SECRET verify, others do not.
verifyToken(token) == token = "signed"

\* broadcastToClients that gives up at the first client that is not open.
broadcastToClients_abort(message) ==
  [c \in Conns |->
     IF c \in wsClients /\ conns[c].readyState = "open"
        /\ \A d \in wsClients : d < c => conns[d].readyState = "open"
     THEN Append(net[c], message)
     ELSE net[c]]

\* broadcastToClients that stops after the first client of the set.
broadcastToClients_first(message) ==
  [c \in Conns |->
     IF c \in wsClients /\ conns[c].readyState = "open"
        /\ \A d \in wsClients : c <= d
     THEN Append(net[c], message)
     ELSE net[c]]

\* broadcastToClients(message): the connections' outgoing messages afterwards.
broadcastToClients(message) ==
  [c \in Conns |->
     IF c \in wsClients /\ conns[c].readyState = "open"
     THEN Append(net[c], message)
     ELSE net[c]]

\* ws.send(message) on connection c.
SendTo(c, message) == [net EXCEPT ![c] = Append(@, message)]

\* Every connection can take one more message.
Room == \A c \in Conns : Len(net[c]) < MaxNet

\* The entry of a bot in the auth_success message (ws-server.js 787-798).
AuthEntry(b) ==
  [id |-> b.id, type |-> b.type, character |-> b.character, name |-> b.name,
   x |-> b.x, y |-> b.y, target |-> b.target, state |-> b.state,
   boundBy |-> b.boundBy, speech |-> b.speech]

\* A new connection is accepted: wss.on('connection').
WsConnect(c) ==
  /\ conns[c].readyState = "none"
  /\ conns' = [conns EXCEPT ![c] = [readyState |-> "open", authenticated |-> FALSE]]
  /\ net' = [net EXCEPT ![c] = <<>>]
  /\ UNCHANGED <<localBots, remoteBots, botsFile, wsClients, res, now, unboundAt, taskSet>>

\* The message {type: 'auth', token} arrives on connection c.
WsAuth(c, token) ==
  /\ conns[c].readyState = "open"
  /\ Len(net[c]) < MaxNet
  /\ IF verifyToken(token)
     THEN /\ conns' = [conns EXCEPT ![c].authenticated = TRUE]
          /\ wsClients' = wsClients \cup {c}
          /\ net' = SendTo(c, [type |-> "auth_success",
                               bots |-> [id \in DOMAIN getAllBots |-> AuthEntry(getAllBots[id])]])
     ELSE /\ net' = SendTo(c, [type |-> "auth_failed", error |-> "Invalid token"])
          /\ conns' = [conns EXCEPT ![c].readyState = "closing"]
          /\ UNCHANGED wsClients
  /\ UNCHANGED <<localBots, remoteBots, botsFile, res, now, unboundAt, taskSet>>

\* The bot_update handler that keeps the position of a bot that has left
\* the spawn column.
WsBotUpdate_keep(c, id, x, y) ==
  /\ conns[c].readyState = "open"
  /\ Room
  /\ IF ~conns[c].authenticated
     THEN /\ net' = SendTo(c, [type |-> "error", error |-> "Not authenticated"])
          /\ UNCHANGED <<localBots, remoteBots>>
     ELSE LET bot == getBotById(id)
          IN IF bot # Null
             THEN /\ PutBot(IF bot.x = SPAWN_POSITION.x
                            THEN [bot EXCEPT !.x = x, !.y = y] ELSE bot)
                  /\ net' = broadcastToClients(
                               [type |-> "bot_position", bot |-> [id |-> bot.id, x |-> x, y |-> y]])
             ELSE UNCHANGED <<localBots, remoteBots, net>>
  /\ UNCHANGED <<botsFile, wsClients, conns, res, now, unboundAt, taskSet>>

\* The bot_update handler without the check of `authenticated`.
WsBotUpdate_open(c, id, x, y) ==
  /\ conns[c].readyState = "open"
  /\ Room
  /\ LET bot == getBotById(id)
     IN IF bot # Null
        THEN /\ PutBot([bot EXCEPT !.x = x, !.y = y])
             /\ net' = broadcastToClients(
                          [type |-> "bot_position", bot |-> [id |-> bot.id, x |-> x, y |-> y]])
        ELSE UNCHANGED <<localBots, remoteBots, net>>
  /\ UNCHANGED <<botsFile, wsClients, conns, res, now, unboundAt, taskSet>>

\* The message {type: 'bot_update', bot: {id, x, y}} arrives on connection c.
WsBotUpdate(c, id, x, y) ==
  /\ conns[c].readyState = "open"
  /\ Room
  /\ IF ~conns[c].authenticated
     THEN /\ net' = SendTo(c, [type |-> "error", error |-> "Not authenticated"])
          /\ UNCHANGED <<localBots, remoteBots>>
     ELSE LET bot == getBotById(id)
          IN IF bot # Null
             THEN /\ PutBot([bot EXCEPT !.x = x, !.y = y])
                  /\ net' = broadcastToClients(
                               [type |-> "bot_position", bot |-> [id |-> bot.id, x |-> x, y |-> y]])
             ELSE UNCHANGED <<localBots, remoteBots, net>>
  /\ UNCHANGED <<botsFile, wsClients, conns, res, now, unboundAt, taskSet>>

\* The connection starts to close (either end called close(), or the link
\* dropped): readyState is no longer OPEN, the 'close' event has not fired.
WsClosing(c) ==
  /\ conns[c].readyState = "open"
  /\ conns' = [conns EXCEPT ![c].readyState = "closing"]
  /\ UNCHANGED <<localBots, remoteBots, botsFile, wsClients, net, res, now, unboundAt, taskSet>>

\* The 'close' event of connection c (ws-server.js 830-833); the socket is
\* gone, and with it what it had not delivered.
WsClosed(c) ==
  /\ conns[c].readyState = "closing"
  /\ conns' = [conns EXCEPT ![c] = NoConn]
  /\ wsClients' = wsClients \ {c}
  /\ net' = [net EXCEPT ![c] = <<>>]
  /\ UNCHANGED <<localBots, remoteBots, botsFile, res, now, unboundAt, taskSet>>

\* The clock advances.
Tick ==
  /\ now < MaxTime
  /\ now' = now + 1
  /\ UNCHANGED <<localBots, remoteBots, botsFile, wsClients, conns, net, res, unboundAt, taskSet>>

\* ------------------------------------------------------------------------
\* HTTP control API (ws-server.js 338-693)
\* ------------------------------------------------------------------------
DEFAULT_DURATION == 5000

\* res.status(status).json(body)
Reply(status, body) == res' = [status |-> status, body |-> body]

\* A request is answered with an error and nothing else happens.
Fail(status, error) ==
  /\ Reply(status, [error |-> error])
  /\ UNCHANGED <<localBots, remoteBots, botsFile, net, unboundAt, taskSet>>

\* verifyApiKey that lets every key through.
verifyApiKey_any(key) == TRUE

\* verifyApiKey
verifyApiKey(key) == key = API_KEY

\* A bind without the check for local bots.
ApiBind_local(key, clawId, customName, bodyClawId, character) ==
     /\ Room
     /\ IF ~verifyApiKey(key) THEN Fail(401, "Unauthorized: Invalid API key")
        ELSE LET bot == createBot(clawId, customName, character)
             IN /\ botsFile' = IF bot.isNew THEN saveBotToFile(clawId, bot) ELSE botsFile
                /\ remoteBots' = MapSet(remoteBots, clawId, bot)
                /\ net' = broadcastToClients(
                      [type |-> IF bot.isNew THEN "bot_created" ELSE "bot_bound",
                       bot |-> [id |-> bot.id, type |-> bot.type, character |-> bot.character,
                                name |-> bot.name, x |-> bot.x, y |-> bot.y,
                                target |-> bot.target, state |-> bot.state,
                                boundBy |-> bot.boundBy]])
                /\ Reply(200,
                      [ok |-> TRUE, created |-> bot.isNew,
                       bot |-> [id |-> bot.id, name |-> bot.name, character |-> bot.character,
                                position |-> [x |-> bot.x, y |-> bot.y]]])
                /\ unboundAt' = IF clawId \in RemoteIds /\ unboundAt[clawId] # Null
                                   /\ clawId \notin DOMAIN remoteBots
                                THEN [unboundAt EXCEPT ![clawId].rebound = TRUE]
                                ELSE unboundAt
                /\ UNCHANGED taskSet
                /\ UNCHANGED localBots
     /\ UNCHANGED <<wsClients, conns, now>>

\* POST /api/bots/:id/bind
ApiBind(key, clawId, customName, bodyClawId, character) ==
     /\ Room
     /\ IF ~verifyApiKey(key) THEN Fail(401, "Unauthorized: Invalid API key")
        ELSE IF clawId \in LocalIds THEN Fail(403, "Cannot bind to local bot")
        ELSE LET bot == createBot(clawId, customName, character)
             IN /\ botsFile' = IF bot.isNew THEN saveBotToFile(clawId, bot) ELSE botsFile
                /\ remoteBots' = MapSet(remoteBots, clawId, bot)
                /\ net' = broadcastToClients(
                      [type |-> IF bot.isNew THEN "bot_created" ELSE "bot_bound",
                       bot |-> [id |-> bot.id, type |-> bot.type, character |-> bot.character,
                                name |-> bot.name, x |-> bot.x, y |-> bot.y,
                                target |-> bot.target, state |-> bot.state,
                                boundBy |-> bot.boundBy]])
                /\ Reply(200,
                      [ok |-> TRUE, created |-> bot.isNew,
                       bot |-> [id |-> bot.id, name |-> bot.name, character |-> bot.character,
                                position |-> [x |-> bot.x, y |-> bot.y]]])
                /\ unboundAt' = IF unboundAt[clawId] # Null /\ clawId \notin DOMAIN remoteBots
                                THEN [unboundAt EXCEPT ![clawId].rebound = TRUE]
                                ELSE unboundAt
                /\ UNCHANGED taskSet
                /\ UNCHANGED localBots
     /\ UNCHANGED <<wsClients, conns, now>>

\* POST /api/bots/:id/unbind
ApiUnbind(key, botId) ==
  LET bot == getBotById(botId)
  IN /\ Room
     /\ IF ~verifyApiKey(key) THEN Fail(401, "Unauthorized: Invalid API key")
        ELSE IF bot = Null THEN Fail(404, "Bot not found")
        ELSE IF bot.type = "local" THEN Fail(403, "Cannot unbind local bot")
        ELSE /\ botsFile' = saveBotToFile(botId, bot)
             /\ remoteBots' = [k \in (DOMAIN remoteBots) \ {botId} |-> remoteBots[k]]
             /\ net' = broadcastToClients([type |-> "bot_removed", bot |-> [id |-> bot.id]])
             /\ Reply(200, [ok |-> TRUE])
             /\ unboundAt' = [unboundAt EXCEPT ![botId] =
                                [x |-> bot.x, y |-> bot.y, taskStatus |-> bot.taskStatus,
                                 rebound |-> FALSE]]
             /\ UNCHANGED taskSet
             /\ UNCHANGED localBots
     /\ UNCHANGED <<wsClients, conns, now>>

\* POST /api/bots/:id/move
ApiMove(key, id, direction) ==
  LET bot == getBotById(id)
  IN /\ Room
     /\ IF ~verifyApiKey(key) THEN Fail(401, "Unauthorized: Invalid API key")
        ELSE IF bot = Null THEN Fail(404, "Bot not found")
        ELSE IF bot.boundBy = "" THEN Fail(403, "Bot not bound")
        ELSE IF direction \notin Directions THEN Fail(400, "Invalid direction")
        ELSE /\ PutBot([bot EXCEPT !.moveDir = direction])
             /\ net' = broadcastToClients(
                   [type |-> "bot_move", bot |-> [id |-> bot.id, direction |-> direction]])
             /\ Reply(200, [ok |-> TRUE, direction |-> direction])
             /\ UNCHANGED <<botsFile, unboundAt, taskSet>>
     /\ UNCHANGED <<wsClients, conns, now>>

\* A goto that drops the bot's current path before it looks for the new one,
\* so that a goto without a path leaves the bot without any.
ApiGoto_reset(key, id, location, x, y) ==
  LET bot == getBotById(id)
      byName == location # ""
      targetX == IF byName THEN ToNum(LOCATIONS[location].x) ELSE x
      targetY == IF byName THEN ToNum(LOCATIONS[location].y) ELSE y
      found == findPath(bot.x, bot.y, targetX, targetY)
      label == IF byName THEN location ELSE "custom"
  IN /\ Room
     /\ IF ~verifyApiKey(key) THEN Fail(401, "Unauthorized: Invalid API key")
        ELSE IF bot = Null THEN Fail(404, "Bot not found")
        ELSE IF bot.boundBy = "" THEN Fail(403, "Bot not bound")
        ELSE IF byName /\ location \notin DOMAIN LOCATIONS
             THEN Fail(400, "Invalid location")
        ELSE IF ~byName /\ (x = Undefined \/ y = Undefined)
             THEN Fail(400, "Must provide either location or (x, y) coordinates")
        ELSE IF ~found.found
             THEN /\ Reply(400,
                        [error |-> "No path found",
                         from |-> [x |-> Floor(bot.x), y |-> Floor(bot.y)],
                         to |-> [x |-> targetX, y |-> targetY]])
                  /\ PutBot([bot EXCEPT !.autoMove = FALSE, !.path = NoPath])
                  /\ UNCHANGED <<botsFile, net, unboundAt, taskSet>>
        ELSE /\ PutBot([bot EXCEPT !.autoMove = TRUE, !.path = found.path,
                                   !.pathIndex = 0, !.target = label])
             /\ net' = broadcastToClients(
                   [type |-> "bot_goto",
                    bot |-> [id |-> bot.id, path |-> found.path, target |-> label]])
             /\ Reply(200,
                   [ok |-> TRUE, path |-> found.path, pathLength |-> Len(found.path),
                    target |-> [x |-> targetX, y |-> targetY]])
             /\ UNCHANGED <<botsFile, unboundAt, taskSet>>
     /\ UNCHANGED <<wsClients, conns, now>>

\* A goto in which the coordinates, when both are given, take precedence
\* over the location key.
ApiGoto_coords(key, id, location, x, y) ==
  LET bot == getBotById(id)
      byName == location # "" /\ (x = Undefined \/ y = Undefined)
      targetX == IF byName THEN ToNum(LOCATIONS[location].x) ELSE x
      targetY == IF byName THEN ToNum(LOCATIONS[location].y) ELSE y
      found == findPath(bot.x, bot.y, targetX, targetY)
      label == IF byName THEN location ELSE "custom"
  IN /\ Room
     /\ IF ~verifyApiKey(key) THEN Fail(401, "Unauthorized: Invalid API key")
        ELSE IF bot = Null THEN Fail(404, "Bot not found")
        ELSE IF bot.boundBy = "" THEN Fail(403, "Bot not bound")
        ELSE IF byName /\ location \notin DOMAIN LOCATIONS
             THEN Fail(400, "Invalid location")
        ELSE IF ~byName /\ (x = Undefined \/ y = Undefined)
             THEN Fail(400, "Must provide either location or (x, y) coordinates")
        ELSE IF ~found.found
             THEN /\ Reply(400,
                        [error |-> "No path found",
                         from |-> [x |-> Floor(bot.x), y |-> Floor(bot.y)],
                         to |-> [x |-> targetX, y |-> targetY]])
                  /\ UNCHANGED <<localBots, remoteBots, botsFile, net, unboundAt, taskSet>>
        ELSE /\ PutBot([bot EXCEPT !.autoMove = TRUE, !.path = found.path,
                                   !.pathIndex = 0, !.target = label])
             /\ net' = broadcastToClients(
                   [type |-> "bot_goto",
                    bot |-> [id |-> bot.id, path |-> found.path, target |-> label]])
             /\ Reply(200,
                   [ok |-> TRUE, path |-> found.path, pathLength |-> Len(found.path),
                    target |-> [x |-> targetX, y |-> targetY]])
             /\ UNCHANGED <<botsFile, unboundAt, taskSet>>
     /\ UNCHANGED <<wsClients, conns, now>>

\* POST /api/bots/:id/goto, with the body {location, x, y}
ApiGoto(key, id, location, x, y) ==
  LET bot == getBotById(id)
      byName == location # ""
      targetX == IF byName THEN ToNum(LOCATIONS[location].x) ELSE x
      targetY == IF byName THEN ToNum(LOCATIONS[location].y) ELSE y
      found == findPath(bot.x, bot.y, targetX, targetY)
      label == IF byName THEN location ELSE "custom"
  IN /\ Room
     /\ IF ~verifyApiKey(key) THEN Fail(401, "Unauthorized: Invalid API key")
        ELSE IF bot = Null THEN Fail(404, "Bot not found")
        ELSE IF bot.boundBy = "" THEN Fail(403, "Bot not bound")
        ELSE IF byName /\ location \notin DOMAIN LOCATIONS
             THEN Fail(400, "Invalid location")
        ELSE IF ~byName /\ (x = Undefined \/ y = Undefined)
             THEN Fail(400, "Must provide either location or (x, y) coordinates")
        ELSE IF ~found.found
             THEN /\ Reply(400,
                        [error |-> "No path found",
                         from |-> [x |-> Floor(bot.x), y |-> Floor(bot.y)],
                         to |-> [x |-> targetX, y |-> targetY]])
                  /\ UNCHANGED <<localBots, remoteBots, botsFile, net, unboundAt, taskSet>>
        ELSE /\ PutBot([bot EXCEPT !.autoMove = TRUE, !.path = found.path,
                                   !.pathIndex = 0, !.target = label])
             /\ net' = broadcastToClients(
                   [type |-> "bot_goto",
                    bot |-> [id |-> bot.id, path |-> found.path, target |-> label]])
             /\ Reply(200,
                   [ok |-> TRUE, path |-> found.path, pathLength |-> Len(found.path),
                    target |-> [x |-> targetX, y |-> targetY]])
             /\ UNCHANGED <<botsFile, unboundAt, taskSet>>
     /\ UNCHANGED <<wsClients, conns, now>>

\* POST /api/bots/:id/state
ApiState(key, id, state) ==
  LET bot == getBotById(id)
  IN /\ Room
     /\ IF ~verifyApiKey(key) THEN Fail(401, "Unauthorized: Invalid API key")
        ELSE IF bot = Null THEN Fail(404, "Bot not found")
        ELSE IF state \notin States THEN Fail(400, "Invalid state")
        ELSE /\ PutBot([bot EXCEPT !.state = state])
             /\ net' = broadcastToClients(
                   [type |-> "bot_state", bot |-> [id |-> bot.id, state |-> state]])
             /\ Reply(200, [ok |-> TRUE, state |-> state])
             /\ UNCHANGED <<botsFile, unboundAt, taskSet>>
     /\ UNCHANGED <<wsClients, conns, now>>

\* POST /api/bots/:id/say, with the body {message, duration}
ApiSay(key, id, message, bodyDuration) ==
  LET bot == getBotById(id)
      duration == IF bodyDuration = Undefined \/ bodyDuration = 0
                  THEN DEFAULT_DURATION ELSE bodyDuration
  IN /\ Room
     /\ IF ~verifyApiKey(key) THEN Fail(401, "Unauthorized: Invalid API key")
        ELSE IF bot = Null THEN Fail(404, "Bot not found")
        ELSE IF message = "" THEN Fail(400, "Message required")
        ELSE /\ PutBot([bot EXCEPT !.speech = [text |-> message, until |-> now + duration]])
             /\ net' = broadcastToClients(
                   [type |-> "bot_say",
                    bot |-> [id |-> bot.id, message |-> message, duration |-> duration]])
             /\ Reply(200, [ok |-> TRUE, message |-> message])
             /\ UNCHANGED <<botsFile, unboundAt, taskSet>>
     /\ UNCHANGED <<wsClients, conns, now>>

\* POST /api/bots/:id/task-status, with the body {status, description}
ApiTaskStatus(key, id, status, description) ==
  LET bot == getBotById(id)
      taskStatus == [status |-> status, description |-> description, lastUpdate |-> now]
      bot1 == [bot EXCEPT !.taskStatus = taskStatus]
  IN /\ Room
     /\ IF ~verifyApiKey(key) THEN Fail(401, "Unauthorized: Invalid API key")
        ELSE IF bot = Null THEN Fail(404, "Bot not found")
        ELSE IF status \notin TaskStatuses THEN Fail(400, "Invalid status")
        ELSE /\ PutBot(bot1)
             /\ botsFile' = saveBotToFile(bot1.id, bot1)
             /\ net' = broadcastToClients(
                   [type |-> "bot_task_status",
                    bot |-> [id |-> bot1.id, taskStatus |-> taskStatus]])
             /\ Reply(200, [ok |-> TRUE, taskStatus |-> taskStatus])
             /\ taskSet' = [taskSet EXCEPT ![bot1.id] =
                               [status |-> status, description |-> description]]
             /\ UNCHANGED unboundAt
     /\ UNCHANGED <<wsClients, conns, now>>

\* GET /api/bots/:id/task-status
ApiGetTaskStatus(key, id) ==
  LET bot == getBotById(id)
  IN /\ IF ~verifyApiKey(key) THEN Fail(401, "Unauthorized: Invalid API key")
        ELSE IF bot = Null THEN Fail(404, "Bot not found")
        ELSE /\ Reply(200, [taskStatus |-> IF bot.taskStatus # Null THEN bot.taskStatus
                                           ELSE IdleTask(now)])
             /\ UNCHANGED <<localBots, remoteBots, botsFile, net, unboundAt, taskSet>>
     /\ UNCHANGED <<wsClients, conns, now>>

\* The number of tiles GET /api/map/random-point tries.
MAX_ATTEMPTS == 100

\* The loop that returns the tile of its first attempt without looking at it.
randomPoint_first(draws) ==
  [found |-> TRUE, x |-> draws[1][1], y |-> draws[1][2], attempts |-> 1]

\* The loop of ws-server.js 627-634; draws[i] is the tile <<x, y>> the two
\* Math.random() calls of the i-th attempt give.  The loop returns at the
\* first attempt whose tile is walkable and falls through after the last.
randomPoint(draws) ==
  LET hits == {i \in 1..MAX_ATTEMPTS : isWalkable(draws[i][1], draws[i][2])}
  IN IF hits = {}
     THEN [found |-> FALSE, x |-> Undefined, y |-> Undefined, attempts |-> MAX_ATTEMPTS]
     ELSE LET first == CHOOSE i \in hits : \A j \in hits : i <= j
          IN [found |-> TRUE, x |-> draws[first][1], y |-> draws[first][2],
              attempts |-> first]

\* GET /api/map/random-point
ApiRandomPoint(key, draws) ==
  /\ IF ~verifyApiKey(key) THEN Reply(401, [error |-> "Unauthorized: Invalid API key"])
     ELSE IF ~mapCollisions.loaded THEN Reply(503, [error |-> "Map data not loaded"])
     ELSE LET point == randomPoint(draws)
          IN IF point.found THEN Reply(200, [x |-> point.x, y |-> point.y])
             ELSE Reply(500, [error |-> "Failed to find random point"])
  /\ UNCHANGED <<localBots, remoteBots, botsFile, wsClients, conns, net, now,
                 unboundAt, taskSet>>

\* ------------------------------------------------------------------------
\* Inputs
\* ------------------------------------------------------------------------
Tokens == {"signed", "forged"}
\* The clawId an instance sends in the body of its bind request.
ClawIdInputs == {"pm", "openclaw"}
\* Positions a client reports in bot_update.
ReportInputs == {<<ToNum(15), ToNum(19)>>}

\* ------------------------------------------------------------------------
\* The server with arbitrary WebSocket clients
\* ------------------------------------------------------------------------
NoCall == [called |-> FALSE]
NoResponse == [status |-> 0, body |-> Null]

InitServer ==
  /\ localBots = [id \in LocalIds |-> LocalBot]
  /\ remoteBots = <<>>
  /\ botsFile = <<>>
  /\ wsClients = {}
  /\ conns = [c \in Conns |-> NoConn]
  /\ net = [c \in Conns |-> <<>>]
  /\ res = NoResponse
  /\ now = 0
  /\ unboundAt = [id \in RemoteIds |-> Null]
  /\ taskSet = [id \in BotIds |-> Null]

\* The server process stops and starts again: the module state is built anew
\* and every socket is gone; bots.json stays as it is.
Restart ==
  /\ localBots' = [id \in LocalIds |-> LocalBot]
  /\ remoteBots' = <<>>
  /\ wsClients' = {}
  /\ conns' = [c \in Conns |-> NoConn]
  /\ net' = [c \in Conns |-> <<>>]
  /\ res' = NoResponse
  /\ unboundAt' = [id \in RemoteIds |-> Null]
  /\ UNCHANGED <<botsFile, now, taskSet>>

Init ==
  /\ mapCollisions = OfficeMap
  /\ pf = NoCall
  /\ InitServer
  /\ viewer = [c \in Conns |-> Null]

\* A client takes the next message of its connection.
ClientReceive(c) ==
  /\ net[c] # <<>>
  /\ net' = [net EXCEPT ![c] = Tail(@)]
  /\ UNCHANGED <<localBots, remoteBots, botsFile, wsClients, conns, res, now, unboundAt, taskSet>>

otherVars == <<mapCollisions, pf, viewer>>

Next ==
  \/ \E id \in BotIds, clawId \in ClawIdInputs :
       ApiBind(API_KEY, id, "", clawId, "pm") /\ UNCHANGED otherVars
  \/ \E id \in BotIds : ApiUnbind(API_KEY, id) /\ UNCHANGED otherVars
  \/ \E id \in RemoteIds, d \in {"up", "jump"} :
       ApiMove(API_KEY, id, d) /\ UNCHANGED otherVars
  \/ \E id \in RemoteIds :
       ApiGoto(API_KEY, id, "", ToNum(14), ToNum(19)) /\ UNCHANGED otherVars
  \/ \E id \in RemoteIds, st \in {"working"} :
       ApiState(API_KEY, id, st) /\ UNCHANGED otherVars
  \/ \E id \in RemoteIds, m \in {"hi"} :
       ApiSay(API_KEY, id, m, Undefined) /\ UNCHANGED otherVars
  \/ \E id \in RemoteIds, st \in {"idle"} :
       ApiTaskStatus(API_KEY, id, st, "") /\ UNCHANGED otherVars
  \/ \E c \in Conns : WsConnect(c) /\ UNCHANGED otherVars
  \/ \E c \in Conns, t \in Tokens : WsAuth(c, t) /\ UNCHANGED otherVars
  \/ \E c \in Conns : WsClosing(c) /\ UNCHANGED otherVars
  \/ \E c \in Conns : WsClosed(c) /\ UNCHANGED otherVars
  \/ \E c \in Conns : ClientReceive(c) /\ UNCHANGED otherVars

Spec == Init /\ [][Next]_vars

\* ------------------------------------------------------------------------
\* Realtime fan-out of the control API
\* ------------------------------------------------------------------------
\* Connection c is authenticated and open.
Listening(c) == conns[c].authenticated /\ conns[c].readyState = "open"

\* In this step connection c is sent exactly one event, of the given type and
\* about the given bot, behind everything it was sent before.
Delivered(c, type, id) ==
  /\ Len(net'[c]) = Len(net[c]) + 1
  /\ SubSeq(net'[c], 1, Len(net[c])) = net[c]
  /\ net'[c][Len(net'[c])].type = type
  /\ net'[c][Len(net'[c])].bot.id = id

\* In this step every listening connection is sent the one event and no other
\* connection is sent anything.
FanOut(type, id) ==
  \A c \in Conns : IF Listening(c) THEN Delivered(c, type, id) ELSE net'[c] = net[c]

\* The event type of each mutating operation, when the step is that
\* operation on bot id and it succeeds.
MutationFansOut(id) ==
  /\ (\E clawId \in ClawIdInputs : ApiBind(API_KEY, id, "", clawId, "pm"))
       => FanOut(IF res'.body.created THEN "bot_created" ELSE "bot_bound", id)
  /\ ApiUnbind(API_KEY, id) => FanOut("bot_removed", id)
  /\ (\E d \in {"up", "jump"} : ApiMove(API_KEY, id, d)) => FanOut("bot_move", id)
  /\ ApiGoto(API_KEY, id, "", ToNum(14), ToNum(19)) => FanOut("bot_goto", id)
  /\ ApiState(API_KEY, id, "working") => FanOut("bot_state", id)
  /\ ApiSay(API_KEY, id, "hi", Undefined) => FanOut("bot_say", id)
  /\ ApiTaskStatus(API_KEY, id, "idle", "") => FanOut("bot_task_status", id)

C7_AlreadyBound ==
  [][\A id \in RemoteIds, clawId \in ClawIdInputs :
       (/\ id \in DOMAIN remoteBots
        /\ remoteBots[id].boundBy # clawId
        /\ ApiBind(API_KEY, id, "", clawId, "pm"))
       => (res'.status # 200 /\ remoteBots'[id] = remoteBots[id])]_vars

\* ------------------------------------------------------------------------
\* Motion of a bound bot
\* ------------------------------------------------------------------------
\* The bot has an active directional impulse.
HasImpulse(bot) == bot.moveDir \in {"up", "down", "left", "right"}

\* The bot has an active path.
HasPath(bot) == bot.autoMove /\ bot.path # NoPath

\* C9: no bot of the server's registry has an active directional impulse and
\* an active path at the same time.
C9_OneMotion ==
  \A id \in DOMAIN getAllBots : ~(HasImpulse(getAllBots[id]) /\ HasPath(getAllBots[id]))

\* ------------------------------------------------------------------------
\* findPath on arbitrary small grids
\* ------------------------------------------------------------------------
Tiles(w, h) == (0..(w - 1)) \X (0..(h - 1))

\* Every GridW x GridH collisions layer with at most MaxBlocked blocked tiles.
Grids ==
  {loadMapData(GridW, GridH, b) :
     b \in {t \in SUBSET Tiles(GridW, GridH) : Cardinality(t) <= MaxBlocked}}

\* Coordinates passed to findPath: whole and fractional, on the grid and one
\* tile beyond it.
QueryNum(k) == ToNum(k) + (k % 2) * (Scale \div 2)
QueryX == {QueryNum(k) : k \in 0..GridW}
QueryY == {QueryNum(k) : k \in 0..GridH}

InitPath ==
  /\ mapCollisions \in Grids \cup {NoMap}
  /\ pf = NoCall
  /\ InitServer
  /\ viewer = [c \in Conns |-> Null]

\* One call findPath(sx, sy, gx, gy) and its result.
PathQuery(sx, sy, gx, gy) ==
  /\ ~pf.called
  /\ pf' = [called |-> TRUE, startX |-> sx, startY |-> sy, endX |-> gx, endY |-> gy,
            result |-> findPath(sx, sy, gx, gy)]
  /\ UNCHANGED <<mapCollisions, viewer>>
  /\ UNCHANGED serverVars

NextPath ==
  \E sx \in QueryX, gx \in QueryX, sy \in QueryY, gy \in QueryY :
    PathQuery(sx, sy, gx, gy)

SpecPath == InitPath /\ [][NextPath]_vars

\* The start and goal tiles of the call, and the returned path.
StartTile == <<Floor(pf.startX), Floor(pf.startY)>>
GoalTile == <<Floor(pf.endX), Floor(pf.endY)>>
Returned == pf.result.path

Adjacent(a, b) == Abs(a[1] - b[1]) + Abs(a[2] - b[2]) = 1

\* Breadth-first search from `frontier`: the number of steps to goal, or
\* Infinity when the walkable tiles around the start do not contain it.
RECURSIVE BfsSteps(_, _, _, _)
BfsSteps(frontier, seen, goal, d) ==
  IF goal \in frontier THEN d
  ELSE IF frontier = {} THEN Infinity
  ELSE LET next == {t \in Tiles(mapCollisions.width, mapCollisions.height) \ seen :
                      isWalkable(t[1], t[2]) /\ \E f \in frontier : Adjacent(f, t)}
       IN BfsSteps(next, seen \cup next, goal, d + 1)

\* The minimum number of steps between two walkable tiles (without a map
\* every tile is walkable and it is the Manhattan distance).
MinSteps(a, b) ==
  IF ~mapCollisions.loaded THEN heuristic(a[1], a[2], b[1], b[2])
  ELSE BfsSteps({a}, {a}, b, 0)

\* A call has been made with walkable start and goal tiles.
BothWalkable ==
  /\ pf.called
  /\ isWalkable(StartTile[1], StartTile[2])
  /\ isWalkable(GoalTile[1], GoalTile[2])

\* ... and a walkable 4-connected route joins them.
RouteExists == BothWalkable /\ MinSteps(StartTile, GoalTile) # Infinity

\* C2: when a walkable route joins start and goal, the returned path begins
\* with the start tile, ends with the goal tile, moves by exactly one tile in
\* exactly one axis between consecutive elements, and holds walkable tiles only.
C2_PathShape ==
  RouteExists =>
    /\ pf.result.found
    /\ Returned # <<>>
    /\ Returned[1] = StartTile
    /\ Returned[Len(Returned)] = GoalTile
    /\ \A i \in 1..(Len(Returned) - 1) : Adjacent(Returned[i], Returned[i + 1])
    /\ \A i \in 1..Len(Returned) : isWalkable(Returned[i][1], Returned[i][2])

\* C3: when a walkable route joins start and goal, the returned path has as
\* many tiles as the minimum number of steps between them plus one.
C3_Shortest ==
  RouteExists =>
    /\ pf.result.found
    /\ Len(Returned) = MinSteps(StartTile, GoalTile) + 1

\* C4: findPath returns null when the start or the goal tile is not walkable,
\* and when both are walkable but no route joins them; in the latter case the
\* search loop ends with an empty open set.
C4_NoPath ==
  pf.called =>
    /\ ~BothWalkable => ~pf.result.found
    /\ (BothWalkable /\ ~RouteExists) =>
         (~pf.result.found /\ pf.result.exit = "exhausted")

\* A search between two walkable tiles that no route joins ran dry.
C4_Witness ==
  /\ BothWalkable
  /\ ~RouteExists
  /\ StartTile # GoalTile
  /\ pf.result.exit = "exhausted"

\* C5: for a walkable tile p, findPath(p, p) returns the one-element path [p].
C5_SameTile ==
  (BothWalkable /\ StartTile = GoalTile) =>
    (pf.result.found /\ Returned = <<StartTile>>)

\* ------------------------------------------------------------------------
\* Persistence across unbind and bind
\* ------------------------------------------------------------------------
\* The server with one client that reports positions, a controller that binds,
\* unbinds and reports task status, and the clock.
NextStore ==
  \/ \E id \in RemoteIds, character \in {"pm", "xm"} :
       ApiBind(API_KEY, id, "", id, character) /\ UNCHANGED otherVars
  \/ \E id \in BotIds : ApiUnbind(API_KEY, id) /\ UNCHANGED otherVars
  \/ \E id \in BotIds :
       ApiTaskStatus(API_KEY, id, "working", "") /\ UNCHANGED otherVars
  \/ \E id \in BotIds : ApiGetTaskStatus(API_KEY, id) /\ UNCHANGED otherVars
  \/ Restart /\ UNCHANGED otherVars
  \/ WsConnect(1) /\ UNCHANGED otherVars
  \/ WsAuth(1, "signed") /\ UNCHANGED otherVars
  \/ \E id \in RemoteIds, p \in ReportInputs :
       WsBotUpdate(1, id, p[1], p[2]) /\ UNCHANGED otherVars
  \/ ClientReceive(1) /\ UNCHANGED otherVars
  \/ Tick /\ UNCHANGED otherVars

SpecStore == Init /\ [][NextStore]_vars

\* The step is a successful bind of bot id.
BindStep(id) ==
  \E character \in {"pm", "xm"} : ApiBind(API_KEY, id, "", id, character)

C8_RebindKeepsPosition ==
  [][\A id \in RemoteIds :
       (id \in DOMAIN remoteBots /\ remoteBots[id].boundBy = id /\ BindStep(id))
       => /\ res'.status = 200
          /\ remoteBots'[id].x = remoteBots[id].x
          /\ remoteBots'[id].y = remoteBots[id].y]_vars

\* ------------------------------------------------------------------------
\* The viewer page (viewer.js 34-325, ws-client.js 75-223)
\* ------------------------------------------------------------------------
\* Speeds in fixed point: BOT_SPEED 0.08, the impulse speed 0.15 and the
\* waypoint radius 0.2 of updateBots.
BOT_SPEED == 8
IMPULSE_SPEED == 15
WAYPOINT_RADIUS == 20

\* The bots array of a page that has just loaded (viewer.js 35-54).
ViewerLocalBot ==
  [id |-> "alvin-local", type |-> "local", character |-> "alvin", name |-> "",
   x |-> ToNum(15), y |-> ToNum(20), target |-> "desk_alvin", state |-> "working",
   boundBy |-> "", speech |-> Null, manual |-> FALSE, moveDir |-> "",
   autoMove |-> FALSE, path |-> NoPath, pathIndex |-> Undefined]

\* A loaded page: its bots, the isAuthenticated flag of ws-client.js, and
\* (history) the bots whose path a later move command has superseded.
ViewerPage ==
  [bots |-> [id \in LocalIds |-> ViewerLocalBot],
   isAuthenticated |-> FALSE,
   superseded |-> {}]

\* botData.f || dflt  for a string field the message may not carry.
FieldOr(botData, f, dflt) ==
  IF f \in DOMAIN botData /\ botData[f] # "" THEN botData[f] ELSE dflt

\* botData.speech || null
SpeechOr(botData) ==
  IF "speech" \in DOMAIN botData THEN botData.speech ELSE Null

\* clawControl._addBot(botData) on the bots of a page.
addBot(bots, botData) ==
  IF botData.id \in DOMAIN bots
  THEN LET existing == bots[botData.id]
       IN [bots EXCEPT ![botData.id] =
             [existing EXCEPT
                !.character = botData.character,
                !.name = botData.name,
                !.x = botData.x,
                !.y = botData.y,
                !.state = FieldOr(botData, "state", "working"),
                !.boundBy = FieldOr(botData, "boundBy", ""),
                !.speech = SpeechOr(botData),
                !.target = FieldOr(botData, "target", FieldOr(existing, "target", "spawn"))]]
  ELSE MapSet(bots, botData.id,
         [id |-> botData.id, type |-> FieldOr(botData, "type", "remote"),
          character |-> botData.character, name |-> botData.name,
          x |-> botData.x, y |-> botData.y, target |-> "spawn",
          state |-> FieldOr(botData, "state", "working"),
          boundBy |-> FieldOr(botData, "boundBy", ""),
          speech |-> SpeechOr(botData),
          manual |-> TRUE, moveDir |-> "", autoMove |-> FALSE,
          path |-> NoPath, pathIndex |-> Undefined])

\* clawControl._removeBot(botId)
removeBot(bots, botId) == [k \in (DOMAIN bots) \ {botId} |-> bots[k]]

\* The auth_success branch of handleMessage over the bots of the message, in
\* the order of the ids in `todo`.
RECURSIVE InitBots(_, _, _)
InitBots(bots, serverBots, todo) ==
  IF todo = {} THEN bots
  ELSE LET id == CHOOSE k \in todo : TRUE
           serverBot == serverBots[id]
           bots1 == IF serverBot.type = "remote" THEN addBot(bots, serverBot)
                    ELSE IF id \in DOMAIN bots
                    THEN [bots EXCEPT ![id] =
                            [@ EXCEPT !.x = serverBot.x, !.y = serverBot.y,
                                      !.state = serverBot.state,
                                      !.boundBy = serverBot.boundBy,
                                      !.speech = serverBot.speech]]
                    ELSE bots
       IN InitBots(bots1, serverBots, todo \ {id})

\* handleMessage(message) on page v, without what it does to the socket.
handleMessage(v, message) ==
  LET type == message.type
      known == "bot" \in DOMAIN message /\ message.bot.id \in DOMAIN v.bots
      bot == v.bots[message.bot.id]
      Put(b) == [v EXCEPT !.bots[message.bot.id] = b]
  IN IF type = "auth_success"
     THEN [v EXCEPT !.isAuthenticated = TRUE,
                    !.bots = InitBots(@, message.bots, DOMAIN message.bots)]
     ELSE IF type \in {"bot_created", "bot_bound"}
     THEN [v EXCEPT !.bots = addBot(@, message.bot)]
     ELSE IF type = "bot_removed"
     THEN [v EXCEPT !.bots = removeBot(@, message.bot.id),
                    !.superseded = @ \ {message.bot.id}]
     ELSE IF type = "bot_move" /\ known
     THEN [Put([bot EXCEPT !.moveDir = message.bot.direction])
             EXCEPT !.superseded =
                      IF bot.autoMove /\ bot.path # NoPath
                      THEN @ \cup {bot.id} ELSE @]
     ELSE IF type = "bot_state" /\ known
     THEN Put([bot EXCEPT !.state = message.bot.state])
     ELSE IF type = "bot_say" /\ known
     THEN Put([bot EXCEPT !.speech =
                 [text |-> message.bot.message,
                  until |-> now + (IF message.bot.duration = 0 THEN DEFAULT_DURATION
                                   ELSE message.bot.duration)]])
     ELSE IF type = "bot_goto" /\ known
     THEN [Put([bot EXCEPT !.autoMove = TRUE, !.path = message.bot.path,
                           !.pathIndex = 0, !.target = message.bot.target])
             EXCEPT !.superseded = @ \ {bot.id}]
     ELSE IF type = "bot_position" /\ known /\ ~bot.manual
     THEN Put([bot EXCEPT !.x = message.bot.x, !.y = message.bot.y])
     ELSE v

\* ws.onmessage of the page on connection c: the next message is handled;
\* auth_failed closes the socket.
ViewerReceive(c) ==
  /\ viewer[c] # Null
  /\ net[c] # <<>>
  /\ viewer' = [viewer EXCEPT ![c] = handleMessage(@, Head(net[c]))]
  /\ net' = [net EXCEPT ![c] = Tail(@)]
  /\ conns' = IF Head(net[c]).type = "auth_failed" /\ conns[c].readyState = "open"
              THEN [conns EXCEPT ![c].readyState = "closing"]
              ELSE conns
  /\ UNCHANGED <<mapCollisions, pf, localBots, remoteBots, botsFile, wsClients,
                 res, now, unboundAt, taskSet>>

Sign(n) == IF n > 0 THEN 1 ELSE IF n < 0 THEN 0 - 1 ELSE 0

\* Math.sqrt to the resolution of the fixed point: the largest r in lo..hi
\* with r * r <= n.
RECURSIVE Isqrt(_, _, _)
Isqrt(n, lo, hi) ==
  IF lo >= hi THEN lo
  ELSE LET mid == (lo + hi + 1) \div 2
       IN IF mid * mid <= n THEN Isqrt(n, mid, hi) ELSE Isqrt(n, lo, mid - 1)

\* (d / distance) * speed, rounded to the resolution of the fixed point.
Toward(d, distance, speed) ==
  Sign(d) * ((Abs(d) * speed + distance \div 2) \div distance)

\* The desk an unbound remote bot picks: desk_${bot.id}.
DeskOf == [pm |-> "desk_pm"]

\* The first part of the forEach body of updateBots (viewer.js 235-307) for
\* one bot: the bot afterwards, the move it wants, and whether the body
\* returned early.  keys are the arrow keys held down, roll the outcome of the
\* random draws of the AI branch.
Steer(bot, keys, roll) ==
  LET still == [bot |-> bot, moveX |-> 0, moveY |-> 0, skip |-> FALSE]
  IN IF bot.boundBy # "" /\ bot.moveDir # ""
     THEN [still EXCEPT
             !.bot = IF bot.moveDir = "stop" THEN [bot EXCEPT !.moveDir = ""] ELSE bot,
             !.moveX = IF bot.moveDir = "left" THEN 0 - IMPULSE_SPEED
                       ELSE IF bot.moveDir = "right" THEN IMPULSE_SPEED ELSE 0,
             !.moveY = IF bot.moveDir = "up" THEN 0 - IMPULSE_SPEED
                       ELSE IF bot.moveDir = "down" THEN IMPULSE_SPEED ELSE 0]
     ELSE IF bot.boundBy # "" /\ bot.autoMove /\ bot.path # NoPath
     THEN IF bot.pathIndex < Len(bot.path)
          THEN LET targetPoint == bot.path[bot.pathIndex + 1]
                   dx == ToNum(targetPoint[1]) - bot.x
                   dy == ToNum(targetPoint[2]) - bot.y
                   distance == Isqrt(dx * dx + dy * dy, 0, Abs(dx) + Abs(dy))
               IN IF dx * dx + dy * dy < WAYPOINT_RADIUS * WAYPOINT_RADIUS
                  THEN [still EXCEPT
                          !.bot = IF bot.pathIndex + 1 >= Len(bot.path)
                                  THEN [bot EXCEPT !.autoMove = FALSE, !.path = NoPath,
                                                   !.pathIndex = 0]
                                  ELSE [bot EXCEPT !.pathIndex = @ + 1]]
                  ELSE [still EXCEPT !.moveX = Toward(dx, distance, BOT_SPEED),
                                     !.moveY = Toward(dy, distance, BOT_SPEED)]
          ELSE [still EXCEPT !.bot = [bot EXCEPT !.autoMove = FALSE]]
     ELSE IF bot.id = "alvin-local" /\ bot.boundBy = ""
     THEN [still EXCEPT
             !.moveX = IF "ArrowRight" \in keys THEN IMPULSE_SPEED
                       ELSE IF "ArrowLeft" \in keys THEN 0 - IMPULSE_SPEED ELSE 0,
             !.moveY = IF "ArrowDown" \in keys THEN IMPULSE_SPEED
                       ELSE IF "ArrowUp" \in keys THEN 0 - IMPULSE_SPEED ELSE 0]
     ELSE IF bot.boundBy = "" /\ bot.type # "local"
     THEN LET bot1 == IF roll = "offline"
                      THEN [bot EXCEPT !.target = "spawn", !.state = "offline"]
                      ELSE IF roll = "coffee"
                      THEN [bot EXCEPT !.target = "pantry", !.state = "coffee"]
                      ELSE IF roll = "working"
                      THEN [bot EXCEPT !.target = DeskOf[bot.id], !.state = "working"]
                      ELSE bot
          IN IF bot1.target \notin DOMAIN LOCATIONS
             THEN [still EXCEPT !.bot = bot1, !.skip = TRUE]
             ELSE LET dest == LOCATIONS[bot1.target]
                      dx == ToNum(dest.x) - bot1.x
                      dy == ToNum(dest.y) - bot1.y
                  IN [still EXCEPT
                        !.bot = bot1,
                        !.moveX = IF Abs(dx) > 10 THEN Sign(dx) * BOT_SPEED ELSE 0,
                        !.moveY = IF Abs(dy) > 10 THEN Sign(dy) * BOT_SPEED ELSE 0]
     ELSE still

\* collisionLayer.data[idx] !== 0 for the tile the move leads to (viewer.js
\* 310-317); an index outside the layer reads undefined, which is not 0.
Collides(x, y, moveX, moveY) ==
  LET nextX == Floor(x + moveX + Scale \div 2)
      nextY == Floor(y + moveY + (4 * Scale) \div 5)
      idx == nextY * mapCollisions.width + nextX
  IN IF idx < 0 \/ idx >= Len(mapCollisions.data) THEN TRUE ELSE DataAt(idx) # 0

\* The forEach body of updateBots for one bot.
updateBot(bot, keys, roll) ==
  LET expired == bot.speech # Null /\ now > bot.speech.until
      s == Steer(IF expired THEN [bot EXCEPT !.speech = Null] ELSE bot, keys, roll)
      blocked == /\ mapCollisions.loaded
                 /\ (s.moveX # 0 \/ s.moveY # 0)
                 /\ Collides(s.bot.x, s.bot.y, s.moveX, s.moveY)
  IN IF s.skip \/ blocked THEN s.bot
     ELSE [s.bot EXCEPT !.x = @ + s.moveX, !.y = @ + s.moveY]

\* One frame of the page on connection c: updateBots.
ViewerTick(c, keys, roll) ==
  /\ viewer[c] # Null
  /\ viewer' = [viewer EXCEPT ![c].bots =
                  [id \in DOMAIN @ |-> updateBot(@[id], keys, roll)]]
  /\ UNCHANGED <<mapCollisions, pf>>
  /\ UNCHANGED serverVars

\* ------------------------------------------------------------------------
\* The server with a viewer page on connection 1
\* ------------------------------------------------------------------------
InitView ==
  /\ mapCollisions = OfficeMap
  /\ pf = NoCall
  /\ InitServer
  /\ viewer = [c \in Conns |-> IF c = 1 THEN ViewerPage ELSE Null]

NextView ==
  \/ \E id \in RemoteIds : ApiBind(API_KEY, id, "", id, "pm") /\ UNCHANGED otherVars
  \/ \E id \in RemoteIds : ApiUnbind(API_KEY, id) /\ UNCHANGED otherVars
  \/ \E id \in RemoteIds, d \in {"up", "stop"} :
       ApiMove(API_KEY, id, d) /\ UNCHANGED otherVars
  \/ \E id \in RemoteIds :
       ApiGoto(API_KEY, id, "", ToNum(14), ToNum(19)) /\ UNCHANGED otherVars
  \/ WsConnect(1) /\ UNCHANGED otherVars
  \/ WsAuth(1, "signed") /\ UNCHANGED otherVars
  \/ ViewerReceive(1)
  \/ ViewerTick(1, {}, "none")

SpecView == InitView /\ [][NextView]_vars

\* In this step the page on connection c advances bot id along its path: it
\* moves toward the waypoint under the cursor or moves the cursor past it.
AdvancesOnPath(c, id) ==
  /\ viewer[c] # Null
  /\ id \in DOMAIN viewer[c].bots
  /\ LET bot == viewer[c].bots[id]
     IN /\ bot.boundBy # ""
        /\ bot.moveDir = ""
        /\ bot.autoMove
        /\ bot.path # NoPath
        /\ bot.pathIndex < Len(bot.path)
  /\ ViewerTick(c, {}, "none")

\* C10: once a page has applied a move command to a bot that was following
\* the path of an earlier goto, no frame of that page advances the bot along
\* that path any more, also after a later move 'stop'.
C10_OldPathDiscarded ==
  [][\A c \in Conns, id \in BotIds :
       AdvancesOnPath(c, id) => id \notin viewer[c].superseded]_vars

\* ------------------------------------------------------------------------
\* Two viewer pages that join at different times
\* ------------------------------------------------------------------------
InitJoin ==
  /\ mapCollisions = OfficeMap
  /\ pf = NoCall
  /\ InitServer
  /\ viewer = [c \in Conns |-> ViewerPage]

\* The controller binds and steers the bot while the pages connect,
\* authenticate and handle what they are sent.
NextJoin ==
  \/ \E id \in RemoteIds : ApiBind(API_KEY, id, "", id, "pm") /\ UNCHANGED otherVars
  \/ \E id \in RemoteIds : ApiMove(API_KEY, id, "up") /\ UNCHANGED otherVars
  \/ \E id \in RemoteIds :
       ApiGoto(API_KEY, id, "", ToNum(14), ToNum(19)) /\ UNCHANGED otherVars
  \/ \E c \in Conns : WsConnect(c) /\ UNCHANGED otherVars
  \/ \E c \in Conns : WsAuth(c, "signed") /\ UNCHANGED otherVars
  \/ \E c \in Conns : ViewerReceive(c)

SpecJoin == InitJoin /\ [][NextJoin]_vars

\* The page on connection c is authenticated and has handled everything it
\* was sent.
CaughtUp(c) ==
  /\ viewer[c] # Null
  /\ viewer[c].isAuthenticated
  /\ net[c] = <<>>

\* The motion a page holds for a bot: its direction, and its path with target
\* when it follows one.
MotionOf(bot) ==
  [direction |-> bot.moveDir,
   following |-> HasPath(bot),
   path |-> IF HasPath(bot) THEN bot.path ELSE NoPath,
   target |-> IF HasPath(bot) THEN bot.target ELSE ""]

\* C11: two pages that are authenticated and have handled their snapshot and
\* every event sent to them hold the same motion for every bot they both
\* show, whenever each of them joined.
C11_ViewersConverge ==
  \A c \in Conns, d \in Conns :
    (CaughtUp(c) /\ CaughtUp(d)) =>
      \A id \in (DOMAIN viewer[c].bots) \cap (DOMAIN viewer[d].bots) :
        MotionOf(viewer[c].bots[id]) = MotionOf(viewer[d].bots[id])

\* ------------------------------------------------------------------------
\* The snapshot sent on authentication
\* ------------------------------------------------------------------------
\* The types of the events broadcastToClients is called with.
BroadcastTypes ==
  {"bot_created", "bot_bound", "bot_removed", "bot_move", "bot_goto", "bot_state",
   "bot_say", "bot_task_status", "bot_position"}

\* In this step a message is sent to connection c.
SentTo(c) == Len(net'[c]) > Len(net[c])

\* The message sent to connection c in this step.
LastSent(c) == net'[c][Len(net'[c])]

\* The step in which connection c enters the broadcast set sends it
\* auth_success with one entry for each local and each live remote bot,
\* carrying the bot's id and position.
SnapshotSent(c) ==
  /\ Len(net'[c]) = Len(net[c]) + 1
  /\ SubSeq(net'[c], 1, Len(net[c])) = net[c]
  /\ LastSent(c).type = "auth_success"
  /\ DOMAIN LastSent(c).bots = LocalIds \cup DOMAIN remoteBots
  /\ \A id \in DOMAIN LastSent(c).bots :
       LET bot == IF id \in LocalIds THEN localBots[id] ELSE remoteBots[id]
       IN /\ LastSent(c).bots[id].id = id
          /\ LastSent(c).bots[id].type = bot.type
          /\ LastSent(c).bots[id].x = bot.x
          /\ LastSent(c).bots[id].y = bot.y

\* C12: a successful auth sends auth_success with exactly one entry for every
\* bot of the registry (local and live remote) in the step that makes the
\* connection a broadcast target, and no broadcast event is sent to a
\* connection before that step.
C12_SnapshotFirst ==
  [][\A c \in Conns :
       /\ (c \notin wsClients /\ c \in wsClients') => SnapshotSent(c)
       /\ (c \notin wsClients /\ SentTo(c)) => LastSent(c).type \notin BroadcastTypes]_vars

\* A connection holds the snapshot it was sent on authentication, with the
\* local bot and the live remote bot in it.
C12_Witness ==
  \E c \in Conns :
    /\ c \in wsClients
    /\ Len(net[c]) = 1
    /\ net[c][1].type = "auth_success"
    /\ DOMAIN net[c][1].bots = {"alvin-local", "pm"}

\* ------------------------------------------------------------------------
\* Position reports on the realtime channel
\* ------------------------------------------------------------------------
\* The server with two connections that open, authenticate, report positions
\* and close, while a controller binds the remote bot.
NextSync ==
  \/ \E id \in RemoteIds : ApiBind(API_KEY, id, "", id, "pm") /\ UNCHANGED otherVars
  \/ \E c \in Conns : WsConnect(c) /\ UNCHANGED otherVars
  \/ \E c \in Conns, t \in Tokens : WsAuth(c, t) /\ UNCHANGED otherVars
  \/ \E c \in Conns, id \in BotIds, p \in ReportInputs :
       WsBotUpdate(c, id, p[1], p[2]) /\ UNCHANGED otherVars
  \/ \E c \in Conns : WsClosing(c) /\ UNCHANGED otherVars
  \/ \E c \in Conns : WsClosed(c) /\ UNCHANGED otherVars
  \/ \E c \in Conns : ClientReceive(c) /\ UNCHANGED otherVars

SpecSync == Init /\ [][NextSync]_vars

\* The step is the arrival of a position report on connection c.
ReportStep(c) ==
  \E id \in BotIds, p \in ReportInputs : WsBotUpdate(c, id, p[1], p[2])

C14_ReportRebroadcast ==
  [][\A c \in Conns, id \in BotIds, p \in ReportInputs :
       (/\ conns[c].authenticated
        /\ getBotById(id) # Null
        /\ WsBotUpdate(c, id, p[1], p[2]))
       => \A d \in Conns \ {c} :
            Listening(d) =>
              /\ Delivered(d, "bot_position", id)
              /\ LastSent(d).bot.x = p[1]
              /\ LastSent(d).bot.y = p[2]]_vars

\* Both connections are authenticated and hold the bot_position event of a
\* report about the remote bot.
C14_Witness ==
  \A c \in Conns :
    /\ Listening(c)
    /\ Len(net[c]) = 1
    /\ net[c][1].type = "bot_position"
    /\ net[c][1].bot.id = "pm"
    /\ net[c][1].bot.x = remoteBots["pm"].x

\* ------------------------------------------------------------------------
\* The local bot
\* ------------------------------------------------------------------------
\* The step is a bind or an unbind request for bot id.
BindOrUnbindStep(id) ==
  \/ \E clawId \in ClawIdInputs : ApiBind(API_KEY, id, "", clawId, "pm")
  \/ ApiUnbind(API_KEY, id)

\* C15: the local bot is always in the registry with type local and never
\* among the remote bots; bind and unbind on its id are answered 403 and
\* change neither the registry, nor the snapshots, nor what is broadcast.
C15_LocalBotFixed ==
  /\ [](\A id \in LocalIds :
          /\ id \in DOMAIN localBots
          /\ localBots[id].type = "local"
          /\ id \notin DOMAIN remoteBots)
  /\ [][\A id \in LocalIds :
          BindOrUnbindStep(id)
            => /\ res'.status = 403
               /\ localBots' = localBots
               /\ remoteBots' = remoteBots
               /\ botsFile' = botsFile
               /\ net' = net]_vars

\* An unbind of the local bot has been refused while a remote bot is live.
C15_Witness ==
  /\ res.status = 403
  /\ res.body = [error |-> "Cannot unbind local bot"]
  /\ "pm" \in DOMAIN remoteBots

\* ------------------------------------------------------------------------
\* Task status across restarts
\* ------------------------------------------------------------------------
\* C20: whenever the task status of a bot of the registry is read, also after
\* a restart of the process (and a bind of the bot when it is a remote one),
\* the answer carries the status and the description last set for that bot.
C20_TaskStatusPersists ==
  [][\A id \in BotIds :
       (taskSet[id] # Null /\ getBotById(id) # Null /\ ApiGetTaskStatus(API_KEY, id))
       => /\ res'.status = 200
          /\ res'.body.taskStatus.status = taskSet[id].status
          /\ res'.body.taskStatus.description = taskSet[id].description]_vars

\* ------------------------------------------------------------------------
\* Authorization and validation of control requests
\* ------------------------------------------------------------------------
\* The x-api-key header: the shared key, another key, or none.
Keys == {API_KEY, "wrong-key", ""}

\* The ids requests address: the bots and an id no bot has.
AllIds == BotIds \cup {"ghost"}

\* Bodies of goto requests that carry neither a known location nor both
\* coordinates.
BadGotoInputs == {<<"", Undefined, Undefined>>, <<"moon", Undefined, Undefined>>}

\* A request with key `key`, of any operation and with any of the inputs.
Request(key) ==
  \/ \E id \in BotIds : ApiBind(key, id, "", id, "pm")
  \/ \E id \in AllIds : ApiUnbind(key, id)
  \/ \E id \in AllIds, d \in {"up", "jump"} : ApiMove(key, id, d)
  \/ \E id \in AllIds, g \in BadGotoInputs : ApiGoto(key, id, g[1], g[2], g[3])
  \/ \E id \in AllIds : ApiState(key, id, "dance")
  \/ \E id \in AllIds : ApiSay(key, id, "", Undefined)
  \/ \E id \in AllIds, st \in {"working", "done"} : ApiTaskStatus(key, id, st, "")
  \/ \E id \in AllIds : ApiGetTaskStatus(key, id)

\* Controllers with and without the key send well-formed and malformed
\* requests for existing and missing bots while one connection listens.
NextGuard ==
  \/ \E key \in Keys : Request(key) /\ UNCHANGED otherVars
  \/ WsConnect(1) /\ UNCHANGED otherVars
  \/ WsAuth(1, "signed") /\ UNCHANGED otherVars
  \/ ClientReceive(1) /\ UNCHANGED otherVars

SpecGuard == Init /\ [][NextGuard]_vars

\* C16: a move with a valid direction is refused as not bound when the bot is
\* a remote bot without a controller, and succeeds when the bot is a local
\* bot: the local bot's direction is set and one bot_move event is broadcast.
C16_MoveLocalBot ==
  [][\A id \in BotIds :
       ApiMove(API_KEY, id, "up") =>
         /\ (id \in DOMAIN remoteBots /\ remoteBots[id].boundBy = "")
              => res'.status = 403
         /\ id \in LocalIds
              => /\ res'.status = 200
                 /\ localBots'[id].moveDir = "up"
                 /\ FanOut("bot_move", id)]_vars

\* The registry, the snapshots and what has been sent to the connections are
\* as before the step.
NothingChanged ==
  /\ localBots' = localBots
  /\ remoteBots' = remoteBots
  /\ botsFile' = botsFile
  /\ net' = net
  /\ wsClients' = wsClients

\* C17: a control request without the key or with another key is answered
\* 401 and changes neither the registry, nor the snapshots, nor what is sent
\* to the connections.
C17_Unauthorized ==
  [][\A key \in Keys \ {API_KEY} :
       Request(key) => (res'.status = 401 /\ NothingChanged)]_vars

\* A request was answered 401 while a remote bot is live and a connection
\* listens.
C17_Witness ==
  /\ res.status = 401
  /\ "pm" \in DOMAIN remoteBots
  /\ Listening(1)

\* C18: a move, goto, state, say or task-status request with a malformed body
\* is answered 400 whatever bot it addresses: existing or not, bound or not.
C18_ValidationFirst ==
  [][\A id \in AllIds :
       /\ ApiMove(API_KEY, id, "jump") => res'.status = 400
       /\ (\E g \in BadGotoInputs : ApiGoto(API_KEY, id, g[1], g[2], g[3]))
            => res'.status = 400
       /\ ApiState(API_KEY, id, "dance") => res'.status = 400
       /\ ApiSay(API_KEY, id, "", Undefined) => res'.status = 400
       /\ ApiTaskStatus(API_KEY, id, "done", "") => res'.status = 400]_vars

\* C19: a task-status request for a bot of the registry with a status other
\* than idle and working is answered 400 "Invalid status", leaves the bot's
\* live and persisted task status as they were, and broadcasts nothing.
C19_InvalidStatus ==
  [][\A id \in BotIds :
       (getBotById(id) # Null /\ ApiTaskStatus(API_KEY, id, "done", ""))
       => /\ res'.status = 400
          /\ res'.body.error = "Invalid status"
          /\ NothingChanged]_vars

\* An invalid status was refused for a live remote bot whose task status had
\* been set to working and persisted, while a connection listens.
C19_Witness ==
  /\ res.status = 400
  /\ res.body = [error |-> "Invalid status"]
  /\ "pm" \in DOMAIN remoteBots
  /\ remoteBots["pm"].taskStatus.status = "working"
  /\ botsFile["pm"].taskStatus.status = "working"
  /\ Listening(1)

\* ------------------------------------------------------------------------
\* Identity of a remote bot across unbind, bind and restart
\* ------------------------------------------------------------------------
\* Names a controller asks for in the body of its bind request (none, or one).
NameInputs == {"", "Bob"}

\* A controller binds the bot under changing names, steers it, makes it speak
\* and unbinds it, while the process restarts and the clock advances.
NextIdentity ==
  \/ \E id \in RemoteIds, customName \in NameInputs, character \in {"pm", "xm"} :
       ApiBind(API_KEY, id, customName, id, character) /\ UNCHANGED otherVars
  \/ \E id \in RemoteIds : ApiUnbind(API_KEY, id) /\ UNCHANGED otherVars
  \/ \E id \in RemoteIds : ApiMove(API_KEY, id, "up") /\ UNCHANGED otherVars
  \/ \E id \in RemoteIds :
       ApiGoto(API_KEY, id, "", ToNum(14), ToNum(19)) /\ UNCHANGED otherVars
  \/ \E id \in RemoteIds : ApiSay(API_KEY, id, "hi", Undefined) /\ UNCHANGED otherVars
  \/ Restart /\ UNCHANGED otherVars
  \/ Tick /\ UNCHANGED otherVars

SpecIdentity == Init /\ [][NextIdentity]_vars

\* The character, name and creation time of a bot or of a snapshot.
IdentityOf(r) == [character |-> r.character, name |-> r.name, createdAt |-> r.createdAt]

\* The step is a bind of bot id, under any name and character draw.
AnyBindStep(id) ==
  \E customName \in NameInputs, character \in {"pm", "xm"} :
    ApiBind(API_KEY, id, customName, id, character)

PerBotStep(id) ==
  \/ ApiUnbind(API_KEY, id)
  \/ \E d \in {"up", "jump"} : ApiMove(API_KEY, id, d)
  \/ \E g \in BadGotoInputs : ApiGoto(API_KEY, id, g[1], g[2], g[3])
  \/ ApiState(API_KEY, id, "dance")
  \/ ApiSay(API_KEY, id, "", Undefined)
  \/ \E st \in {"working", "done"} : ApiTaskStatus(API_KEY, id, st, "")
  \/ ApiGetTaskStatus(API_KEY, id)

WsMalformed(c, kind) ==
  /\ conns[c].readyState = "open"
  /\ Room
  /\ IF kind = "no_bot" /\ ~conns[c].authenticated
     THEN net' = SendTo(c, [type |-> "error", error |-> "Not authenticated"])
     ELSE UNCHANGED net
  /\ UNCHANGED <<localBots, remoteBots, botsFile, wsClients, conns, res, now,
                 unboundAt, taskSet>>

MalformedKinds == {"unparseable", "no_bot"}

\* Coordinates of bot_update frames: a reported position, or none (bot.x and
\* bot.y of the frame are undefined).
FrameInputs == ReportInputs \cup {<<Undefined, Undefined>>}

\* Two connections that open, authenticate with good and bad tokens, send
\* well-formed and malformed frames and close, while a controller binds the
\* remote bot.
NextFrames ==
  \/ \E id \in RemoteIds : ApiBind(API_KEY, id, "", id, "pm") /\ UNCHANGED otherVars
  \/ \E c \in Conns : WsConnect(c) /\ UNCHANGED otherVars
  \/ \E c \in Conns, t \in Tokens : WsAuth(c, t) /\ UNCHANGED otherVars
  \/ \E c \in Conns, id \in AllIds, p \in FrameInputs :
       WsBotUpdate(c, id, p[1], p[2]) /\ UNCHANGED otherVars
  \/ \E c \in Conns, kind \in MalformedKinds : WsMalformed(c, kind) /\ UNCHANGED otherVars
  \/ \E c \in Conns : WsClosing(c) /\ UNCHANGED otherVars
  \/ \E c \in Conns : WsClosed(c) /\ UNCHANGED otherVars
  \/ \E c \in Conns : ClientReceive(c) /\ UNCHANGED otherVars

SpecFrames == Init /\ [][NextFrames]_vars

\* The step is the arrival on connection c of a message in error: an auth
\* with a token that does not verify, a frame that does not parse or lacks
\* the bot object, or a bot_update without coordinates.
ErrorFrameStep(c) ==
  \/ WsAuth(c, "forged")
  \/ \E kind \in MalformedKinds : WsMalformed(c, kind)
  \/ \E id \in AllIds : WsBotUpdate(c, id, Undefined, Undefined)

\* C23: a message in error on a connection changes no bot of the registry
\* and neither adds another connection to the broadcast set nor removes it.
C23_ErrorStaysLocal ==
  [][\A c \in Conns :
       ErrorFrameStep(c)
         => /\ localBots' = localBots
            /\ remoteBots' = remoteBots
            /\ \A d \in Conns \ {c} : (d \in wsClients') = (d \in wsClients)]_vars

\* ------------------------------------------------------------------------
\* Consumers that are gone, closing or failing
\* ------------------------------------------------------------------------
\* A controller binds, commands and unbinds the remote bot while two
\* connections open, authenticate, take what they are sent, and close with
\* or without events they have not taken.
NextFanout ==
  \/ \E id \in RemoteIds : ApiBind(API_KEY, id, "", id, "pm") /\ UNCHANGED otherVars
  \/ \E id \in RemoteIds : ApiUnbind(API_KEY, id) /\ UNCHANGED otherVars
  \/ \E id \in RemoteIds : ApiMove(API_KEY, id, "up") /\ UNCHANGED otherVars
  \/ \E id \in RemoteIds :
       ApiGoto(API_KEY, id, "", ToNum(14), ToNum(19)) /\ UNCHANGED otherVars
  \/ \E id \in RemoteIds : ApiState(API_KEY, id, "working") /\ UNCHANGED otherVars
  \/ \E id \in RemoteIds : ApiSay(API_KEY, id, "hi", Undefined) /\ UNCHANGED otherVars
  \/ \E id \in RemoteIds : ApiTaskStatus(API_KEY, id, "idle", "") /\ UNCHANGED otherVars
  \/ \E c \in Conns : WsConnect(c) /\ UNCHANGED otherVars
  \/ \E c \in Conns : WsAuth(c, "signed") /\ UNCHANGED otherVars
  \/ \E c \in Conns : WsClosing(c) /\ UNCHANGED otherVars
  \/ \E c \in Conns : WsClosed(c) /\ UNCHANGED otherVars
  \/ \E c \in Conns : ClientReceive(c) /\ UNCHANGED otherVars

SpecFanout == Init /\ [][NextFanout]_vars

\* The step is a well-formed request of the mutating operation `op` on bot
\* id, and the event types it broadcasts.
MutationStep(op, id) ==
  CASE op = "bind" -> ApiBind(API_KEY, id, "", id, "pm")
    [] op = "unbind" -> ApiUnbind(API_KEY, id)
    [] op = "move" -> ApiMove(API_KEY, id, "up")
    [] op = "goto" -> ApiGoto(API_KEY, id, "", ToNum(14), ToNum(19))
    [] op = "state" -> ApiState(API_KEY, id, "working")
    [] op = "say" -> ApiSay(API_KEY, id, "hi", Undefined)
    [] op = "task" -> ApiTaskStatus(API_KEY, id, "idle", "")

EventTypes(op) ==
  CASE op = "bind" -> {"bot_created", "bot_bound"}
    [] op = "unbind" -> {"bot_removed"}
    [] op = "move" -> {"bot_move"}
    [] op = "goto" -> {"bot_goto"}
    [] op = "state" -> {"bot_state"}
    [] op = "say" -> {"bot_say"}
    [] op = "task" -> {"bot_task_status"}

Mutations == {"bind", "unbind", "move", "goto", "state", "say", "task"}

InsideTargets == {<<ToNum(14), ToNum(19)>>}
OutsideTargets ==
  {<<ToNum(999), ToNum(999)>>, <<ToNum(MAP_WIDTH), ToNum(19)>>,
   <<ToNum(13), ToNum(MAP_HEIGHT)>>, <<ToNum(0 - 1), ToNum(19)>>}

\* A controller binds the remote bot and sends the bots to destinations
\* inside and outside the grid, between move commands, while a connection
\* listens.
NextGoto ==
  \/ \E id \in RemoteIds : ApiBind(API_KEY, id, "", id, "pm") /\ UNCHANGED otherVars
  \/ \E id \in BotIds : ApiMove(API_KEY, id, "up") /\ UNCHANGED otherVars
  \/ \E id \in BotIds, t \in InsideTargets \cup OutsideTargets :
       ApiGoto(API_KEY, id, "", t[1], t[2]) /\ UNCHANGED otherVars
  \/ WsConnect(1) /\ UNCHANGED otherVars
  \/ WsAuth(1, "signed") /\ UNCHANGED otherVars
  \/ ClientReceive(1) /\ UNCHANGED otherVars

SpecGoto == Init /\ [][NextGoto]_vars

\* C25: a goto of a bot of the registry to coordinates outside the grid is
\* answered 400 "No path found"; it leaves the bots (their direction, path
\* and target among the rest) as they were and sends nothing.
C25_OutOfGrid ==
  [][\A id \in BotIds, t \in OutsideTargets :
       (getBotById(id) # Null /\ ApiGoto(API_KEY, id, "", t[1], t[2]))
       => /\ res'.status = 400
          /\ res'.body.error = "No path found"
          /\ NothingChanged]_vars

\* ------------------------------------------------------------------------
\* The server without a map
\* ------------------------------------------------------------------------
\* loadMapData failed at startup: mapCollisions stays null.
InitNoMap ==
  /\ mapCollisions = NoMap
  /\ pf = NoCall
  /\ InitServer
  /\ viewer = [c \in Conns |-> Null]

\* The draws of a random-point request that always lands on the same tile.
SameDraw(t) == [i \in 1..MAX_ATTEMPTS |-> t]

\* Every endpoint of the control API is called while a connection listens.
NextNoMap ==
  \/ \E id \in RemoteIds : ApiBind(API_KEY, id, "", id, "pm") /\ UNCHANGED otherVars
  \/ \E id \in RemoteIds : ApiUnbind(API_KEY, id) /\ UNCHANGED otherVars
  \/ \E id \in RemoteIds : ApiMove(API_KEY, id, "up") /\ UNCHANGED otherVars
  \/ \E id \in RemoteIds, t \in InsideTargets :
       ApiGoto(API_KEY, id, "", t[1], t[2]) /\ UNCHANGED otherVars
  \/ \E id \in RemoteIds : ApiGoto(API_KEY, id, "spawn", Undefined, Undefined)
                             /\ UNCHANGED otherVars
  \/ \E id \in RemoteIds : ApiState(API_KEY, id, "coffee") /\ UNCHANGED otherVars
  \/ \E id \in RemoteIds : ApiSay(API_KEY, id, "hi", Undefined) /\ UNCHANGED otherVars
  \/ \E id \in RemoteIds : ApiTaskStatus(API_KEY, id, "working", "") /\ UNCHANGED otherVars
  \/ \E id \in BotIds : ApiGetTaskStatus(API_KEY, id) /\ UNCHANGED otherVars
  \/ ApiRandomPoint(API_KEY, SameDraw(<<13, 19>>)) /\ UNCHANGED otherVars
  \/ WsConnect(1) /\ UNCHANGED otherVars
  \/ WsAuth(1, "signed") /\ UNCHANGED otherVars
  \/ ClientReceive(1) /\ UNCHANGED otherVars

SpecNoMap == InitNoMap /\ [][NextNoMap]_vars

\* The step is a request to an endpoint that does not need the map, for a
\* live remote bot (bind: for any remote id).
MapFreeStep(id) ==
  \/ ApiBind(API_KEY, id, "", id, "pm")
  \/ /\ id \in DOMAIN remoteBots
     /\ \/ ApiUnbind(API_KEY, id)
        \/ ApiMove(API_KEY, id, "up")
        \/ ApiState(API_KEY, id, "coffee")
        \/ ApiSay(API_KEY, id, "hi", Undefined)
        \/ ApiTaskStatus(API_KEY, id, "working", "")
        \/ ApiGetTaskStatus(API_KEY, id)

\* The step is a goto request for bot id.
GotoStep(id) ==
  \/ \E t \in InsideTargets : ApiGoto(API_KEY, id, "", t[1], t[2])
  \/ ApiGoto(API_KEY, id, "spawn", Undefined, Undefined)

\* C26: without a map no tile is walkable; a goto is never answered with a
\* path and leaves the bot without one; random-point is answered with an
\* error; and bind, unbind, move, state, say and task status are answered
\* 200 as with a map.
C26_NoMapRefuses ==
  /\ [](~mapCollisions.loaded =>
          \A t \in Tiles(MAP_WIDTH, MAP_HEIGHT) : ~isWalkable(t[1], t[2]))
  /\ [][~mapCollisions.loaded =>
          /\ \A id \in RemoteIds :
               /\ GotoStep(id)
                    => /\ res'.status # 200
                       /\ "path" \notin DOMAIN res'.body
                       /\ remoteBots' = remoteBots
               /\ MapFreeStep(id) => res'.status = 200
          /\ ApiRandomPoint(API_KEY, SameDraw(<<13, 19>>)) => res'.status >= 400]_vars

\* ------------------------------------------------------------------------
\* Random walkable point
\* ------------------------------------------------------------------------
\* GridW x GridH collisions layers that are free, free but for one tile,
\* blocked but for one tile, and blocked.
RandomGrids ==
  LET all == Tiles(GridW, GridH)
  IN {loadMapData(GridW, GridH, b) :
        b \in {{}, all} \cup {{t} : t \in all} \cup {all \ {t} : t \in all}}

\* The draws of a request whose first n attempts land on tile b and whose
\* later ones land on tile t.
Draws(n, b, t) == [i \in 1..MAX_ATTEMPTS |-> IF i <= n THEN b ELSE t]

\* How many attempts land on the first tile: none, one, all but the last, all.
MissCounts == {0, 1, MAX_ATTEMPTS - 1, MAX_ATTEMPTS}

InitRandom ==
  /\ mapCollisions \in RandomGrids \cup {NoMap}
  /\ pf = NoCall
  /\ InitServer
  /\ viewer = [c \in Conns |-> Null]

NextRandom ==
  \E n \in MissCounts, b \in Tiles(GridW, GridH), t \in Tiles(GridW, GridH) :
    ApiRandomPoint(API_KEY, Draws(n, b, t)) /\ UNCHANGED otherVars

SpecRandom == InitRandom /\ [][NextRandom]_vars

\* Tile <<x, y>> lies in the loaded grid and carries no collision tile.
FreeInGrid(x, y) ==
  /\ x \in 0..(mapCollisions.width - 1)
  /\ y \in 0..(mapCollisions.height - 1)
  /\ mapCollisions.data[y * mapCollisions.width + x + 1] = 0

\* C27: a random-point request on a loaded grid looks at no more than 100
\* tiles and is answered either 200 with a tile that lies in the grid and is
\* free, or 500 "Failed to find random point"; on a grid without a free tile
\* the answer is the error.
C27_RandomPointBounded ==
  mapCollisions.loaded =>
    /\ res.status \in {0, 200, 500}
    /\ res.status = 200 => FreeInGrid(res.body.x, res.body.y)
    /\ res.status = 500 => res.body.error = "Failed to find random point"
    /\ (\A t \in Tiles(mapCollisions.width, mapCollisions.height) :
          ~FreeInGrid(t[1], t[2]))
         => res.status \in {0, 500}
    /\ \A n \in MissCounts, b \in Tiles(GridW, GridH), t \in Tiles(GridW, GridH) :
         LET point == randomPoint(Draws(n, b, t))
         IN /\ point.attempts <= MAX_ATTEMPTS
            /\ point.found => FreeInGrid(point.x, point.y)
            /\ ~point.found => point.attempts = MAX_ATTEMPTS
            /\ (point.found /\ ~FreeInGrid(b[1], b[2]) /\ n < MAX_ATTEMPTS)
                 => point.attempts = n + 1

\* On the grid without a free tile a request was answered with the error.
C27_Witness ==
  /\ mapCollisions.loaded
  /\ \A t \in Tiles(mapCollisions.width, mapCollisions.height) : ~FreeInGrid(t[1], t[2])
  /\ res.status = 500
  /\ res.body.error = "Failed to find random point"

\* ------------------------------------------------------------------------
\* findPath around a wall
\* ------------------------------------------------------------------------
\* The 5 x 5 collisions layer that is free but for column x = 2 in rows 0 to 3.
DetourMap == loadMapData(5, 5, {<<2, y>> : y \in 0..3})

InitDetour ==
  /\ mapCollisions = DetourMap
  /\ pf = NoCall
  /\ InitServer
  /\ viewer = [c \in Conns |-> Null]

\* One call of findPath between two tiles of the layer.
NextDetour ==
  \E s \in Tiles(5, 5), g \in Tiles(5, 5) :
    PathQuery(ToNum(s[1]), ToNum(s[2]), ToNum(g[1]), ToNum(g[2]))

SpecDetour == InitDetour /\ [][NextDetour]_vars

\* The call was findPath(0, 0, 4, 0).
CornerToCorner ==
  /\ pf.called
  /\ StartTile = <<0, 0>>
  /\ GoalTile = <<4, 0>>


\* C28 as stated: on this layer findPath(0, 0, 4, 0) returns a path of 9
\* elements that passes through (2, 4).
C28_DetourLength9 ==
  CornerToCorner =>
    /\ pf.result.found
    /\ Len(Returned) = 9
    /\ InSeq(Returned, <<2, 4>>)

\* C28, amended: on this layer findPath(0, 0, 4, 0) returns a path of 13
\* elements that passes through (2, 4), the only free tile of column 2.
C28_DetourLength13 ==
  CornerToCorner =>
    /\ pf.result.found
    /\ Len(Returned) = 13
    /\ InSeq(Returned, <<2, 4>>)

\* The call from corner (0, 0) to corner (4, 0) has returned its path around
\* the wall.
C28_Witness ==
  /\ CornerToCorner
  /\ pf.result.found
  /\ InSeq(Returned, <<2, 4>>)
  /\ MinSteps(StartTile, GoalTile) = 12

\* ------------------------------------------------------------------------
\* Position events on the viewer pages
\* ------------------------------------------------------------------------
\* Two pages connect, authenticate and report positions of the bots, while a
\* controller binds the remote bot.
NextPeers ==
  \/ \E id \in RemoteIds : ApiBind(API_KEY, id, "", id, "pm") /\ UNCHANGED otherVars
  \/ \E c \in Conns : WsConnect(c) /\ UNCHANGED otherVars
  \/ \E c \in Conns : WsAuth(c, "signed") /\ UNCHANGED otherVars
  \/ \E c \in Conns, id \in BotIds, p \in ReportInputs :
       WsBotUpdate(c, id, p[1], p[2]) /\ UNCHANGED otherVars
  \/ \E c \in Conns : ViewerReceive(c)

SpecPeers == InitJoin /\ [][NextPeers]_vars

\* In this step the page on connection c handles a bot_position event about
\* bot id, which it shows.
HandlesPosition(c, id) ==
  /\ viewer[c] # Null
  /\ net[c] # <<>>
  /\ Head(net[c]).type = "bot_position"
  /\ Head(net[c]).bot.id = id
  /\ id \in DOMAIN viewer[c].bots
  /\ ViewerReceive(c)

\* C29: when a page handles a bot_position event about a bot it shows, local
\* or remote, the page's position of that bot becomes the x and y of the
\* event.
C29_PositionApplied ==
  [][\A c \in Conns, id \in BotIds :
       HandlesPosition(c, id)
       => /\ viewer'[c].bots[id].x = Head(net[c]).bot.x
          /\ viewer'[c].bots[id].y = Head(net[c]).bot.y]_vars

\* ------------------------------------------------------------------------
\* Concurrent position reports
\* ------------------------------------------------------------------------
\* The positions the connections report.
WriterInputs == {<<ToNum(15), ToNum(19)>>, <<ToNum(14), ToNum(19)>>}

\* Two connections authenticate and report positions, in any order, for the
\* bots and for an id no bot has, while a controller binds the remote bot.
NextWriters ==
  \/ \E id \in RemoteIds : ApiBind(API_KEY, id, "", id, "pm") /\ UNCHANGED otherVars
  \/ \E c \in Conns : WsConnect(c) /\ UNCHANGED otherVars
  \/ \E c \in Conns : WsAuth(c, "signed") /\ UNCHANGED otherVars
  \/ \E c \in Conns, id \in AllIds, p \in WriterInputs :
       WsBotUpdate(c, id, p[1], p[2]) /\ UNCHANGED otherVars
  \/ \E c \in Conns : ClientReceive(c) /\ UNCHANGED otherVars

SpecWriters == Init /\ [][NextWriters]_vars

\* The position of bot id in the registry (lb, rb).
PositionIn(lb, rb, id) ==
  IF id \in LocalIds THEN <<lb[id].x, lb[id].y>> ELSE <<rb[id].x, rb[id].y>>

\* C30: a report from an authenticated connection for a bot of the registry
\* makes the reported coordinates the bot's position, whatever was reported
\* before and by whom, and leaves the other bots alone; a report for an id
\* that is not in the registry changes no bot and sends nothing; and between
\* reports for a bot only a bind of that bot changes its position.
C30_LastWriterWins ==
  [][/\ \A c \in Conns, id \in AllIds, p \in WriterInputs :
          (conns[c].authenticated /\ WsBotUpdate(c, id, p[1], p[2]))
          => IF getBotById(id) # Null
             THEN /\ PositionIn(localBots', remoteBots', id) = p
                  /\ DOMAIN remoteBots' = DOMAIN remoteBots
                  /\ \A other \in (DOMAIN getAllBots) \ {id} :
                       PositionIn(localBots', remoteBots', other)
                         = PositionIn(localBots, remoteBots, other)
             ELSE /\ localBots' = localBots
                  /\ remoteBots' = remoteBots
                  /\ net' = net
     /\ \A id \in DOMAIN getAllBots :
          (/\ id \in LocalIds \cup DOMAIN remoteBots'
           /\ PositionIn(localBots', remoteBots', id)
                # PositionIn(localBots, remoteBots, id))
          => \/ \E c \in Conns, p \in WriterInputs : WsBotUpdate(c, id, p[1], p[2])
             \/ ApiBind(API_KEY, id, "", id, "pm")]_vars

\* Both connections are authenticated, both bots have been given a reported
\* position, and the connections hold the event of the last report, whose
\* coordinates are the remote bot's position.
C30_Witness ==
  /\ \A c \in Conns : Listening(c)
  /\ "pm" \in DOMAIN remoteBots
  /\ PositionIn(localBots, remoteBots, "alvin-local") = <<ToNum(15), ToNum(19)>>
  /\ PositionIn(localBots, remoteBots, "pm") = <<ToNum(14), ToNum(19)>>
  /\ \A c \in Conns :
       /\ Len(net[c]) = 1
       /\ net[c][1].type = "bot_position"
       /\ net[c][1].bot = [id |-> "pm", x |-> ToNum(14), y |-> ToNum(19)]


\* ------------------------------------------------------------------------
\* Control requests answered with an error
\* ------------------------------------------------------------------------
\* A controller with the key sends every operation to the local bot, the
\* remote bot and an id no bot has, with well-formed and malformed bodies and
\* with destinations inside and outside the grid, while a connection listens.
NextErrors ==
  \/ Request(API_KEY) /\ UNCHANGED otherVars
  \/ \E id \in AllIds, t \in InsideTargets \cup OutsideTargets :
       ApiGoto(API_KEY, id, "", t[1], t[2]) /\ UNCHANGED otherVars
  \/ \E id \in AllIds : ApiGoto(API_KEY, id, "spawn", Undefined, Undefined)
                          /\ UNCHANGED otherVars
  \/ WsConnect(1) /\ UNCHANGED otherVars
  \/ WsAuth(1, "signed") /\ UNCHANGED otherVars
  \/ ClientReceive(1) /\ UNCHANGED otherVars

SpecErrors == Init /\ [][NextErrors]_vars

\* The step is a control request with the key.
ControlRequest ==
  \/ Request(API_KEY)
  \/ \E id \in AllIds, t \in InsideTargets \cup OutsideTargets :
       ApiGoto(API_KEY, id, "", t[1], t[2])
  \/ \E id \in AllIds : ApiGoto(API_KEY, id, "spawn", Undefined, Undefined)

\* 400 (bad request, unknown location, no path), 403 (forbidden, not bound)
\* and 404 (not found).
ErrorStatuses == {400, 403, 404}

\* C31: a control request that is answered with an error (400, 403 or 404)
\* leaves every bot, the persisted snapshots and what has been sent to each
\* connection as they were; a goto that fails so leaves the bot's path,
\* cursor and target as they were.
C31_ErrorChangesNothing ==
  [][(ControlRequest /\ res'.status \in ErrorStatuses) => NothingChanged]_vars

\* A goto was answered "No path found" for a bound bot that follows the path
\* of an earlier goto, while a connection listens.
C31_Witness ==
  /\ res.status = 400
  /\ res.body = [error |-> "No path found",
                 from |-> [x |-> 13, y |-> 19],
                 to |-> [x |-> ToNum(999), y |-> ToNum(999)]]
  /\ "pm" \in DOMAIN remoteBots
  /\ remoteBots["pm"].path # NoPath
  /\ remoteBots["pm"].pathIndex = 0
  /\ remoteBots["pm"].target = "custom"
  /\ Listening(1)


\* ------------------------------------------------------------------------
\* The path and label of a goto
\* ------------------------------------------------------------------------
\* Bodies of goto requests: coordinates alone, a location key alone, and a
\* location key together with coordinates of another tile.
GotoInputs ==
  {<<"", ToNum(14), ToNum(19)>>, <<"spawn", Undefined, Undefined>>,
   <<"spawn", ToNum(14), ToNum(19)>>}

\* A controller binds the bot and sends it to destinations by coordinates and
\* by location key, while the page on connection 1 reports the bot at another
\* tile and handles what it is sent.
NextLabel ==
  \/ \E id \in RemoteIds : ApiBind(API_KEY, id, "", id, "pm") /\ UNCHANGED otherVars
  \/ \E id \in BotIds, g \in GotoInputs :
       ApiGoto(API_KEY, id, g[1], g[2], g[3]) /\ UNCHANGED otherVars
  \/ \E id \in RemoteIds, r \in ReportInputs :
       WsBotUpdate(1, id, r[1], r[2]) /\ UNCHANGED otherVars
  \/ WsConnect(1) /\ UNCHANGED otherVars
  \/ WsAuth(1, "signed") /\ UNCHANGED otherVars
  \/ ViewerReceive(1)

SpecLabel == InitView /\ [][NextLabel]_vars

\* The label of a goto with body g.
LabelOf(g) == IF g[1] # "" THEN g[1] ELSE "custom"

\* C32: after a goto that is answered 200 the path stored on the bot, the
\* path of the bot_goto event every listening connection is sent and the path
\* of the response are the same, the bot's cursor is 0 and its target is the
\* location key when one was given and 'custom' otherwise; a location key
\* decides the destination also when coordinates come with it; and a page
\* that handles the event holds the same path, cursor and target.
C32_GotoAgrees ==
  [][/\ \A id \in BotIds, g \in GotoInputs :
          (ApiGoto(API_KEY, id, g[1], g[2], g[3]) /\ res'.status = 200)
          => LET bot == getAllBots'[id]
             IN /\ bot.path = res'.body.path
                /\ bot.path # NoPath
                /\ bot.pathIndex = 0
                /\ bot.target = LabelOf(g)
                /\ g[1] # "" =>
                     res'.body.target = [x |-> ToNum(LOCATIONS[g[1]].x),
                                         y |-> ToNum(LOCATIONS[g[1]].y)]
                /\ \A c \in Conns : Listening(c) =>
                     /\ SentTo(c)
                     /\ LastSent(c) = [type |-> "bot_goto",
                                       bot |-> [id |-> id, path |-> res'.body.path,
                                                target |-> LabelOf(g)]]
     /\ \A c \in Conns :
          (ViewerReceive(c) /\ Head(net[c]).type = "bot_goto"
             /\ Head(net[c]).bot.id \in DOMAIN viewer[c].bots)
          => LET event == Head(net[c]).bot
                 shown == viewer'[c].bots[event.id]
             IN /\ shown.path = event.path
                /\ shown.pathIndex = 0
                /\ shown.target = event.target]_vars

\* A goto with the key 'spawn' and the coordinates of another tile was
\* answered 200 for a bot away from the spawn tile, and the page holds it.
C32_Witness ==
  /\ res.status = 200
  /\ "path" \in DOMAIN res.body
  /\ res.body.target = [x |-> ToNum(13), y |-> ToNum(19)]
  /\ "pm" \in DOMAIN remoteBots
  /\ remoteBots["pm"].x = ToNum(15)
  /\ remoteBots["pm"].target = "spawn"
  /\ Len(remoteBots["pm"].path) > 1
  /\ viewer[1].bots["pm"].path = remoteBots["pm"].path
  /\ viewer[1].bots["pm"].target = "spawn"


\* ------------------------------------------------------------------------
\* Following a path to its end
\* ------------------------------------------------------------------------
\* A controller binds the bot, sets and stops its direction and sends it to a
\* tile; the page on connection 1 handles the events and runs its frames.
NextFollow ==
  \/ \E id \in RemoteIds : ApiBind(API_KEY, id, "", id, "pm") /\ UNCHANGED otherVars
  \/ \E id \in RemoteIds, d \in {"up", "stop"} :
       ApiMove(API_KEY, id, d) /\ UNCHANGED otherVars
  \/ \E id \in RemoteIds :
       ApiGoto(API_KEY, id, "", ToNum(14), ToNum(19)) /\ UNCHANGED otherVars
  \/ WsConnect(1) /\ UNCHANGED otherVars
  \/ WsAuth(1, "signed") /\ UNCHANGED otherVars
  \/ ViewerReceive(1)
  \/ ViewerTick(1, {}, "none")

\* The page runs its frames for as long as it is open (requestAnimationFrame)
\* and handles every message it is sent.
SpecFollow ==
  /\ InitView
  /\ [][NextFollow]_vars
  /\ WF_vars(ViewerTick(1, {}, "none"))
  /\ WF_vars(ViewerReceive(1))

\* The bot as the page on connection 1 shows it; Null when it shows none.
Shown(id) ==
  IF viewer[1] # Null /\ id \in DOMAIN viewer[1].bots THEN viewer[1].bots[id] ELSE Null

\* The page shows the bot as bound and on the path of a goto.
Following(id) ==
  /\ Shown(id) # Null
  /\ Shown(id).boundBy # ""
  /\ HasPath(Shown(id))

\* Idle after a path: auto-move off, no path, cursor 0.
ArrivedIdle(bot) == ~bot.autoMove /\ bot.path = NoPath /\ bot.pathIndex = 0

\* The bot is within the waypoint radius of the waypoint under its cursor.
AtWaypoint(bot) ==
  LET targetPoint == bot.path[bot.pathIndex + 1]
      dx == ToNum(targetPoint[1]) - bot.x
      dy == ToNum(targetPoint[2]) - bot.y
  IN dx * dx + dy * dy < WAYPOINT_RADIUS * WAYPOINT_RADIUS

\* In a frame of the page a bot on a path keeps or advances its cursor, and
\* advances it only from within the waypoint radius; past the last waypoint
\* it is idle; and a bound bot that is idle and has no direction stays where
\* it is.
CursorAdvances ==
  [][\A id \in RemoteIds :
       (ViewerTick(1, {}, "none") /\ Shown(id) # Null /\ Shown(id).boundBy # "")
       => LET before == Shown(id)
              after == Shown(id)'
          IN /\ (HasPath(before) /\ before.moveDir = "")
                  => /\ \/ after.path = before.path /\ after.pathIndex = before.pathIndex
                        \/ /\ AtWaypoint(before)
                           /\ IF before.pathIndex + 1 >= Len(before.path)
                              THEN ArrivedIdle(after)
                              ELSE /\ after.path = before.path
                                   /\ after.pathIndex = before.pathIndex + 1
                     /\ AtWaypoint(before) => after # before
             /\ (~HasPath(before) /\ before.moveDir = "")
                  => (after.x = before.x /\ after.y = before.y)]_vars

\* A bot on a path that no later move has superseded becomes idle, unless a
\* later event for the page is under way or the page no longer shows the bot.
ReachesIdle ==
  \A id \in RemoteIds :
    (Following(id) /\ id \notin viewer[1].superseded /\ net[1] = <<>>)
      ~> (\/ Shown(id) = Null
          \/ net[1] # <<>>
          \/ (Shown(id) # Null /\ ArrivedIdle(Shown(id))))

\* C33: a bound bot on a path with no later command keeps or advances its
\* cursor, advancing only from within the waypoint radius; with the cursor
\* past the last waypoint it is idle (auto-move off, path cleared, cursor 0)
\* and moves no further; and it reaches that idle state eventually.
C33_PathExhausted == CursorAdvances /\ ReachesIdle


\* ------------------------------------------------------------------------
\* Frames at the edge of the map
\* ------------------------------------------------------------------------
\* A 31 x 21 map whose rows 19 and 20 are free from the left edge to x = 15
\* and whose right edge is free at rows 18 and 19.
EdgeFloor ==
  {<<x, y>> : x \in 0..15, y \in {19, 20}} \cup {<<MAP_WIDTH - 1, 18>>, <<MAP_WIDTH - 1, 19>>}
EdgeMap == loadMapData(MAP_WIDTH, MAP_HEIGHT, Tiles(MAP_WIDTH, MAP_HEIGHT) \ EdgeFloor)

InitEdge ==
  /\ mapCollisions = EdgeMap
  /\ pf = NoCall
  /\ InitServer
  /\ viewer = [c \in Conns |-> IF c = 1 THEN ViewerPage ELSE Null]

\* The arrow keys held down during a frame.
KeyInputs == {{}, {"ArrowLeft"}}

\* A controller binds the remote bot and sends it left; the page shows it and
\* runs its frames, with and without the left arrow key held down.
NextEdge ==
  \/ \E id \in RemoteIds : ApiBind(API_KEY, id, "", id, "pm") /\ UNCHANGED otherVars
  \/ \E id \in RemoteIds : ApiMove(API_KEY, id, "left") /\ UNCHANGED otherVars
  \/ WsConnect(1) /\ UNCHANGED otherVars
  \/ WsAuth(1, "signed") /\ UNCHANGED otherVars
  \/ ViewerReceive(1)
  \/ \E keys \in KeyInputs : ViewerTick(1, keys, "none")

SpecEdge == InitEdge /\ [][NextEdge]_vars

\* The tile the collision check of a frame looks at for a bot that wants to
\* move by (moveX, moveY).
CandidateTile(bot, moveX, moveY) ==
  <<Floor(bot.x + moveX + Scale \div 2), Floor(bot.y + moveY + (4 * Scale) \div 5)>>

\* C34: in a frame in which the tile a bot would move to is not walkable in
\* the collision grid, the bot stays where it is and keeps its direction,
\* path and cursor; a bot's position changes in a frame only when that tile
\* is walkable.
C34_BlockedStaysPut ==
  [][\A keys \in KeyInputs :
       ViewerTick(1, keys, "none") =>
         \A id \in DOMAIN viewer[1].bots :
           LET before == viewer[1].bots[id]
               after == viewer'[1].bots[id]
               s == Steer(before, keys, "none")
               tile == CandidateTile(before, s.moveX, s.moveY)
               wants == s.moveX # 0 \/ s.moveY # 0
           IN /\ (wants /\ ~isWalkable(tile[1], tile[2]))
                   => /\ after.x = before.x
                      /\ after.y = before.y
                      /\ after.moveDir = before.moveDir
                      /\ after.path = before.path
                      /\ after.pathIndex = before.pathIndex
              /\ (after.x # before.x \/ after.y # before.y)
                   => (wants /\ isWalkable(tile[1], tile[2]))]_vars


ListedIds == {<<"local", id>> : id \in LocalIds} \cup {<<"remote", id>> : id \in DOMAIN remoteBots}

NextRejoin ==
  \/ \E id \in RemoteIds : ApiBind(API_KEY, id, "", id, "pm") /\ UNCHANGED otherVars
  \/ \E id \in RemoteIds : ApiUnbind(API_KEY, id) /\ UNCHANGED otherVars
  \/ WsConnect(1) /\ UNCHANGED otherVars
  \/ WsAuth(1, "signed") /\ UNCHANGED otherVars
  \/ WsClosing(1) /\ UNCHANGED otherVars
  \/ WsClosed(1) /\ UNCHANGED otherVars
  \/ ViewerReceive(1)

SpecRejoin == InitView /\ [][NextRejoin]_vars

\* C37: when a page has handled an auth_success message, the ids of the bots
\* it holds are the ids of the bots of the message, also when the page had
\* held bots before that were removed while it was disconnected.
C37_SnapshotReplaces ==
  [][\A c \in Conns :
       (ViewerReceive(c) /\ Head(net[c]).type = "auth_success")
       => DOMAIN viewer'[c].bots = DOMAIN Head(net[c]).bots]_vars


\* ------------------------------------------------------------------------
\* Saving a snapshot when the store cannot be read
\* ------------------------------------------------------------------------
\* loadBotsFromFile with the outcome of the read: the parsed content, or {}
\* when existsSync, readFileSync or JSON.parse throws (ws-server.js 232-235).
loadBotsFromFileOr(readOk) == IF readOk THEN botsFile ELSE <<>>

\* saveBotToFile(botId, botData) with the outcome of its read.
saveBotToFileOr(botId, botData, readOk) ==
  LET allBots == loadBotsFromFileOr(readOk)
  IN [k \in (DOMAIN allBots) \cup {botId} |->
        IF k = botId THEN Snapshot(botData, now) ELSE allBots[k]]

\* POST /api/bots/:id/unbind, with the outcome of the read of saveBotToFile.
ApiUnbindRead(key, botId, readOk) ==
  LET bot == getBotById(botId)
  IN /\ Room
     /\ IF ~verifyApiKey(key) THEN Fail(401, "Unauthorized: Invalid API key")
        ELSE IF bot = Null THEN Fail(404, "Bot not found")
        ELSE IF bot.type = "local" THEN Fail(403, "Cannot unbind local bot")
        ELSE /\ botsFile' = saveBotToFileOr(botId, bot, readOk)
             /\ remoteBots' = [k \in (DOMAIN remoteBots) \ {botId} |-> remoteBots[k]]
             /\ net' = broadcastToClients([type |-> "bot_removed", bot |-> [id |-> bot.id]])
             /\ Reply(200, [ok |-> TRUE])
             /\ unboundAt' = [unboundAt EXCEPT ![botId] =
                                [x |-> bot.x, y |-> bot.y, taskStatus |-> bot.taskStatus,
                                 rebound |-> FALSE]]
             /\ UNCHANGED taskSet
             /\ UNCHANGED localBots
     /\ UNCHANGED <<wsClients, conns, now>>

\* POST /api/bots/:id/task-status, with the outcome of the read of
\* saveBotToFile.
ApiTaskStatusRead(key, id, status, description, readOk) ==
  LET bot == getBotById(id)
      taskStatus == [status |-> status, description |-> description, lastUpdate |-> now]
      bot1 == [bot EXCEPT !.taskStatus = taskStatus]
  IN /\ Room
     /\ IF ~verifyApiKey(key) THEN Fail(401, "Unauthorized: Invalid API key")
        ELSE IF bot = Null THEN Fail(404, "Bot not found")
        ELSE IF status \notin TaskStatuses THEN Fail(400, "Invalid status")
        ELSE /\ PutBot(bot1)
             /\ botsFile' = saveBotToFileOr(bot1.id, bot1, readOk)
             /\ net' = broadcastToClients(
                   [type |-> "bot_task_status",
                    bot |-> [id |-> bot1.id, taskStatus |-> taskStatus]])
             /\ Reply(200, [ok |-> TRUE, taskStatus |-> taskStatus])
             /\ taskSet' = [taskSet EXCEPT ![bot1.id] =
                               [status |-> status, description |-> description]]
             /\ UNCHANGED unboundAt
     /\ UNCHANGED <<wsClients, conns, now>>

\* bots.json as an earlier run of the server left it: the snapshot of a bot
\* 'xm' that is not bound in this run.
SavedXm ==
  [id |-> "xm", character |-> "xm", name |-> "xm", createdAt |-> 0,
   lastPosition |-> SPAWN_POSITION, lastSeen |-> 0, taskStatus |-> IdleTask(0)]

InitSaved ==
  /\ mapCollisions = OfficeMap
  /\ pf = NoCall
  /\ localBots = [id \in LocalIds |-> LocalBot]
  /\ remoteBots = <<>>
  /\ botsFile = [id \in {"xm"} |-> SavedXm]
  /\ wsClients = {}
  /\ conns = [c \in Conns |-> NoConn]
  /\ net = [c \in Conns |-> <<>>]
  /\ res = NoResponse
  /\ now = 0
  /\ unboundAt = [id \in RemoteIds |-> Null]
  /\ taskSet = [id \in BotIds |-> Null]
  /\ viewer = [c \in Conns |-> Null]

\* A controller binds and unbinds the bot and reports its task status while
\* reads of bots.json succeed or fail, a connection reports positions and the
\* clock advances.
NextSave ==
  \/ \E id \in RemoteIds : ApiBind(API_KEY, id, "", id, "pm") /\ UNCHANGED otherVars
  \/ \E id \in RemoteIds, readOk \in BOOLEAN :
       ApiUnbindRead(API_KEY, id, readOk) /\ UNCHANGED otherVars
  \/ \E id \in RemoteIds, readOk \in BOOLEAN :
       ApiTaskStatusRead(API_KEY, id, "working", "", readOk) /\ UNCHANGED otherVars
  \/ WsConnect(1) /\ UNCHANGED otherVars
  \/ WsAuth(1, "signed") /\ UNCHANGED otherVars
  \/ \E id \in RemoteIds, p \in ReportInputs :
       WsBotUpdate(1, id, p[1], p[2]) /\ UNCHANGED otherVars
  \/ ClientReceive(1) /\ UNCHANGED otherVars
  \/ Tick /\ UNCHANGED otherVars

SpecSave == InitSaved /\ [][NextSave]_vars

\* The step is a request that saves the snapshot of bot id.
SaveStep(id) ==
  \E readOk \in BOOLEAN :
    \/ ApiUnbindRead(API_KEY, id, readOk)
    \/ ApiTaskStatusRead(API_KEY, id, "working", "", readOk)

\* C38: a request that saves the snapshot of one bot leaves the persisted
\* record of every other id present and as it was, also when the read of the
\* store that precedes the write fails.
C38_SaveTouchesOneRecord ==
  [][\A id \in RemoteIds :
       (SaveStep(id) /\ res'.status = 200)
       => \A k \in (DOMAIN botsFile) \ {id} :
            k \in DOMAIN botsFile' /\ botsFile'[k] = botsFile[k]]_vars


\* ------------------------------------------------------------------------
\* The realtime client: connect, disconnect and the reconnect timer
\* ------------------------------------------------------------------------
\* The page with the state of ws-client.js: reconnectTimer is "null" before
\* the first setTimeout, "pending" while the timeout it names is due, and
\* "dead" when that timeout has run or was cleared; timers counts the
\* timeouts that are due; and (history) stopped tells that disconnect() was
\* called and connect() has not been called since.
ClientPage ==
  [bots |-> [id \in LocalIds |-> ViewerLocalBot],
   isAuthenticated |-> FALSE,
   superseded |-> {},
   reconnectTimer |-> "null",
   timers |-> 0,
   stopped |-> FALSE]

InitClient ==
  /\ mapCollisions = OfficeMap
  /\ pf = NoCall
  /\ InitServer
  /\ viewer = [c \in Conns |-> IF c = 1 THEN ClientPage ELSE Null]

\* connect(): nothing when the socket is open; otherwise a new WebSocket,
\* which the server accepts.
connect(c) ==
  IF conns[c].readyState = "open"
  THEN UNCHANGED serverVars
  ELSE WsConnect(c)

\* connect() is called by the page (at load, or window.officeBotWS.connect()).
ClientConnect(c) ==
  /\ viewer[c] # Null
  /\ conns[c].readyState \in {"none", "open"}
  /\ connect(c)
  /\ viewer' = [viewer EXCEPT ![c].stopped = FALSE]
  /\ UNCHANGED <<mapCollisions, pf>>

\* The timeout of reconnectTimer runs: connect().
TimerFires(c) ==
  /\ viewer[c] # Null
  /\ viewer[c].reconnectTimer = "pending"
  /\ conns[c].readyState \in {"none", "open"}
  /\ connect(c)
  /\ viewer' = [viewer EXCEPT ![c].reconnectTimer = "dead", ![c].timers = @ - 1]
  /\ UNCHANGED <<mapCollisions, pf>>

\* window.officeBotWS.disconnect(): clearTimeout(reconnectTimer); ws.close().
ClientDisconnect(c) ==
  /\ viewer[c] # Null
  /\ viewer' = [viewer EXCEPT
                  ![c].reconnectTimer = IF @ = "pending" THEN "dead" ELSE @,
                  ![c].timers = IF viewer[c].reconnectTimer = "pending" THEN @ - 1 ELSE @,
                  ![c].stopped = TRUE]
  /\ conns' = IF conns[c].readyState = "open"
              THEN [conns EXCEPT ![c].readyState = "closing"]
              ELSE conns
  /\ UNCHANGED <<mapCollisions, pf, localBots, remoteBots, botsFile, wsClients, net,
                 res, now, unboundAt, taskSet>>

\* ws.onclose on the page, with the 'close' event on the server: the page is
\* no longer authenticated, clears the timeout it holds and sets a new one.
ClientOnClose(c) ==
  /\ viewer[c] # Null
  /\ WsClosed(c)
  /\ viewer' = [viewer EXCEPT
                  ![c].isAuthenticated = FALSE,
                  ![c].timers = IF viewer[c].reconnectTimer = "pending" THEN @ ELSE @ + 1,
                  ![c].reconnectTimer = "pending"]
  /\ UNCHANGED <<mapCollisions, pf>>

\* The page connects, is disconnected by the user or by the link, and
\* reconnects, while a controller binds and unbinds the bot.
NextClient ==
  \/ \E id \in RemoteIds : ApiBind(API_KEY, id, "", id, "pm") /\ UNCHANGED otherVars
  \/ \E id \in RemoteIds : ApiUnbind(API_KEY, id) /\ UNCHANGED otherVars
  \/ ClientConnect(1)
  \/ ClientDisconnect(1)
  \/ TimerFires(1)
  \/ ClientOnClose(1)
  \/ WsAuth(1, "signed") /\ UNCHANGED otherVars
  \/ WsClosing(1) /\ UNCHANGED otherVars
  \/ ViewerReceive(1)

SpecClient == InitClient /\ [][NextClient]_vars

\* C39: after disconnect() and until connect() is called, no reconnect
\* timeout is due and the page has no open connection; and a close that
\* does not follow disconnect() leaves exactly one reconnect timeout due.
C39_StaysDisconnected ==
  /\ [](\A c \in Conns :
          (viewer[c] # Null /\ viewer[c].stopped)
          => /\ viewer[c].reconnectTimer # "pending"
             /\ viewer[c].timers = 0
             /\ conns[c].readyState # "open")
  /\ [][\A c \in Conns :
          (ClientOnClose(c) /\ ~viewer[c].stopped) => viewer'[c].timers = 1]_vars

====
